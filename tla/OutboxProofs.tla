---------------------------- MODULE OutboxProofs ----------------------------
(***************************************************************************)
(* Theorems about Outbox, for any number of events, dispatchers and        *)
(* operators, any claim limit and any number of crashes and overruns.      *)
(***************************************************************************)
EXTENDS Outbox, TLAPS

----------------------------------------------------------------------------
(* Types *)

Batches == UNION {[S -> Rows] : S \in SUBSET Events}

LEMMA BatchTypes ==
    /\ NoBatch \in Batches /\ DOMAIN NoBatch = {}
    /\ \A b \in Batches : DOMAIN b \subseteq Events /\ \A e \in DOMAIN b : b[e] \in Rows
<1>1. NoBatch \in [{} -> Rows] /\ {} \in SUBSET Events
    BY DEF NoBatch
<1>2. NoBatch \in Batches
    BY <1>1 DEF Batches
<1>3. ASSUME NEW b \in Batches
      PROVE DOMAIN b \subseteq Events /\ \A e \in DOMAIN b : b[e] \in Rows
    <2>1. PICK S \in SUBSET Events : b \in [S -> Rows]
        BY DEF Batches
    <2> QED BY <2>1
<1> QED BY <1>2, <1>3 DEF NoBatch

LEMMA BatchIntro ==
    ASSUME NEW S \in SUBSET Events, NEW b \in [S -> Rows]
    PROVE b \in Batches
BY DEF Batches

LEMMA RowTypes ==
    ASSUME NEW r \in Rows
    PROVE /\ Claimed(r) \in Rows
          /\ Recovered(r) \in Rows
          /\ \A outcome : Finished(r, outcome) \in Rows
<1>1. Claimed(r) \in Rows /\ Recovered(r) \in Rows
    BY DEF Rows, Statuses, Claimed, Recovered
<1>2. ASSUME NEW outcome PROVE Finished(r, outcome) \in Rows
    <2> DEFINE tried == [r EXCEPT !.attempts = @ + 1, !.claim = "none"]
    <2>1. tried \in Rows
        <3>1. r.attempts + 1 \in Nat
            BY DEF Rows
        <3> QED BY <3>1 DEF Rows
    <2> HIDE DEF tried
    <2>2. /\ [tried EXCEPT !.status = "processed", !.retry = "none"] \in Rows
          /\ [tried EXCEPT !.status = "dead_letter", !.retry = "none"] \in Rows
          /\ [tried EXCEPT !.status = "error", !.retry = "later"] \in Rows
        BY <2>1 DEF Rows, Statuses
    <2>3. DeadLettered(tried.attempts, outcome) \in BOOLEAN
        BY DEF DeadLettered
    <2> QED BY <2>2, <2>3 DEF Finished, tried
<1> QED BY <1>1, <1>2

LEMMA RecoveryTypes ==
    ASSUME NEW r \in Recoveries, r # NoRecovery
    PROVE r.event \in Events /\ r.copy \in Rows
BY DEF Recoveries

\* A handler's outcome belongs to an event of the batch, and a recovery to an
\* event that was in error or dead-lettered.
LocalInv ==
    /\ \A d \in Dispatchers : handled[d] # Idle => handled[d].event \in DOMAIN batch[d]
    /\ \A o \in Operators :
        recovery[o] # NoRecovery => recovery[o].copy.status \in {"error", "dead_letter"}

\* TypeOK, with the batches as a function set, the form the provers use.
TypeFacts ==
    /\ rows \in [Events -> Rows]
    /\ batch \in [Dispatchers -> Batches]
    /\ handled \in [Dispatchers -> [event : Events \cup {0}, outcome : Outcomes]]
    /\ recovery \in [Operators -> Recoveries]
    /\ delivered \subseteq Events /\ overrun \subseteq Events
    /\ budget \in Nat

TypeInv == TypeFacts /\ LocalInv

LEMMA InitTypes == Init => TypeInv
<1> SUFFICES ASSUME Init PROVE TypeInv
    OBVIOUS
<1>1. rows \in [Events -> Rows]
    BY DEF Init, Rows, Statuses
<1> QED BY <1>1, BatchTypes, OutboxAssumption
       DEF Init, TypeInv, TypeFacts, LocalInv, Recoveries, Idle, Outcomes

LEMMA NextTypes == TypeInv /\ [Next]_vars => TypeInv'
<1> SUFFICES ASSUME TypeInv, [Next]_vars PROVE TypeInv'
    OBVIOUS
<1> USE DEF TypeInv, TypeFacts
<1>1. ASSUME NEW e \in Events, Publish(e) \/ RetryComesDue(e) \/ ClaimAges(e) PROVE TypeInv'
    <2>1. rows' \in [Events -> Rows]
        BY <1>1 DEF Publish, RetryComesDue, ClaimAges, Rows, Statuses
    <2>2. overrun' \subseteq Events /\ budget' \in Nat
        BY <1>1 DEF Publish, RetryComesDue, ClaimAges, Disturb
    <2> QED BY <1>1, <2>1, <2>2 DEF Publish, RetryComesDue, ClaimAges, LocalInv
<1>2. ASSUME NEW d \in Dispatchers, Claim(d) PROVE TypeInv'
    <2>1. Claimable \subseteq Events
        BY DEF Claimable
    <2>2. [e \in Claimable |-> Claimed(rows[e])] \in [Claimable -> Rows]
        BY <2>1, RowTypes
    <2>3. batch' \in [Dispatchers -> Batches]
        BY <1>2, <2>1, <2>2, BatchIntro DEF Claim
    <2>4. rows' \in [Events -> Rows]
        BY <1>2, RowTypes DEF Claim
    <2>5. handled[d] = Idle
        BY <1>2, BatchTypes DEF Claim, LocalInv
    <2>6. LocalInv'
        BY <1>2, <2>5 DEF Claim, LocalInv
    <2> QED BY <1>2, <2>3, <2>4, <2>6 DEF Claim
<1>3. ASSUME NEW d \in Dispatchers, Handle(d) PROVE TypeInv'
    <2>1. PICK e \in DOMAIN batch[d], outcome \in Outcomes :
            /\ handled' = [handled EXCEPT ![d] = [event |-> e, outcome |-> outcome]]
            /\ delivered' = IF outcome = "ok" THEN delivered \cup {e} ELSE delivered
        BY <1>3 DEF Handle
    <2>2. e \in Events
        BY <2>1, BatchTypes
    <2> QED BY <1>3, <2>1, <2>2 DEF Handle, LocalInv
<1>4. ASSUME NEW d \in Dispatchers, Save(d) PROVE TypeInv'
    <2> DEFINE e == handled[d].event
    <2>1. e \in DOMAIN batch[d] /\ e \in Events /\ batch[d][e] \in Rows
        BY <1>4, BatchTypes DEF Save, LocalInv
    <2>2. rows' \in [Events -> Rows]
        BY <1>4, <2>1, RowTypes DEF Save
    <2>3. [f \in DOMAIN batch[d] \ {e} |-> batch[d][f]] \in Batches
        BY BatchTypes, BatchIntro
    <2>4. batch' \in [Dispatchers -> Batches]
        BY <1>4, <2>3 DEF Save
    <2>5. handled' \in [Dispatchers -> [event : Events \cup {0}, outcome : Outcomes]]
        BY <1>4 DEF Save, Idle, Outcomes
    <2>6. LocalInv'
        BY <1>4 DEF Save, LocalInv
    <2> QED BY <1>4, <2>2, <2>4, <2>5, <2>6 DEF Save
<1>5. ASSUME NEW d \in Dispatchers, Abandon(d) PROVE TypeInv'
    <2>1. handled' \in [Dispatchers -> [event : Events \cup {0}, outcome : Outcomes]]
        BY <1>5 DEF Abandon, Idle, Outcomes
    <2>2. batch' \in [Dispatchers -> Batches] /\ budget' \in Nat
        BY <1>5, BatchTypes DEF Abandon, Disturb
    <2>3. LocalInv'
        BY <1>5 DEF Abandon, LocalInv
    <2> QED BY <1>5, <2>1, <2>2, <2>3 DEF Abandon
<1>6. ASSUME NEW o \in Operators, NEW e \in Events, RecoverRead(o, e) PROVE TypeInv'
    <2>1. [event |-> e, copy |-> rows[e]] \in Recoveries
        BY DEF Recoveries
    <2> QED BY <1>6, <2>1 DEF RecoverRead, Disturb, LocalInv
<1>7. ASSUME NEW o \in Operators, RecoverWrite(o) PROVE TypeInv'
    <2>1. recovery[o].event \in Events /\ recovery[o].copy \in Rows
        BY <1>7, RecoveryTypes DEF RecoverWrite
    <2>2. rows' \in [Events -> Rows]
        BY <1>7, <2>1, RowTypes DEF RecoverWrite
    <2>3. recovery' \in [Operators -> Recoveries]
        BY <1>7 DEF RecoverWrite, Recoveries
    <2>4. LocalInv'
        BY <1>7 DEF RecoverWrite, LocalInv
    <2> QED BY <1>7, <2>2, <2>3, <2>4 DEF RecoverWrite
<1>8. CASE UNCHANGED vars
    BY <1>8 DEF vars, LocalInv
<1> QED BY <1>1, <1>2, <1>3, <1>4, <1>5, <1>6, <1>7, <1>8 DEF Next, Dispatch

LEMMA TypeInvariance == Spec => []TypeInv
BY InitTypes, NextTypes, PTL DEF Spec

\* Every row and every copy of one keeps its shape.
THEOREM OutboxTypes == Spec => []TypeOK
<1>1. TypeInv => TypeOK
    <2> SUFFICES ASSUME TypeInv PROVE TypeOK
        OBVIOUS
    <2>1. ASSUME NEW d \in Dispatchers
          PROVE \E S \in SUBSET Events : batch[d] \in [S -> Rows]
        <3>1. batch[d] \in Batches
            BY DEF TypeInv, TypeFacts
        <3> QED BY <3>1 DEF Batches
    <2> QED BY <2>1 DEF TypeInv, TypeFacts, TypeOK
<1> QED BY <1>1, TypeInvariance, PTL

----------------------------------------------------------------------------
(* The claim *)

FinishedFacts(r, outcome) ==
    /\ Finished(r, outcome).claim = "none"
    /\ Finished(r, outcome).status \in {"processed", "dead_letter", "error"}
    /\ Finished(r, outcome).status = "error" => Finished(r, outcome).retry = "later"
    /\ Finished(r, outcome).status = "processed" => outcome = "ok"

LEMMA Finishes ==
    ASSUME NEW r \in Rows, NEW outcome
    PROVE FinishedFacts(r, outcome)
<1> DEFINE tried == [r EXCEPT !.attempts = @ + 1, !.claim = "none"]
<1>1. /\ tried.claim = "none"
      /\ DOMAIN tried = {"status", "attempts", "claim", "retry"}
    BY DEF Rows
<1>2. DeadLettered(tried.attempts, outcome) \in BOOLEAN
    BY DEF DeadLettered
<1>3. CASE outcome = "ok"
    <2>1. Finished(r, outcome) = [tried EXCEPT !.status = "processed", !.retry = "none"]
        BY <1>3 DEF Finished
    <2> HIDE DEF tried
    <2> QED BY <1>1, <1>3, <2>1 DEF FinishedFacts
<1>4. CASE outcome # "ok" /\ DeadLettered(tried.attempts, outcome)
    <2>1. Finished(r, outcome) = [tried EXCEPT !.status = "dead_letter", !.retry = "none"]
        BY <1>4 DEF Finished
    <2> HIDE DEF tried
    <2> QED BY <1>1, <2>1 DEF FinishedFacts
<1>5. CASE outcome # "ok" /\ ~DeadLettered(tried.attempts, outcome)
    <2>1. Finished(r, outcome) = [tried EXCEPT !.status = "error", !.retry = "later"]
        BY <1>5 DEF Finished
    <2> HIDE DEF tried
    <2> QED BY <1>1, <2>1 DEF FinishedFacts
<1> QED BY <1>2, <1>3, <1>4, <1>5

\* Whatever the writes and their order, "processing" and a claim go together.
LEMMA NextClaimMatches == TypeInv /\ ClaimMatchesStatus /\ [Next]_vars => ClaimMatchesStatus'
<1> SUFFICES ASSUME TypeInv, ClaimMatchesStatus, [Next]_vars PROVE ClaimMatchesStatus'
    OBVIOUS
<1> DEFINE Matches(r) == /\ r.status = "processing" <=> r.claim # "none"
                         /\ r.status = "error" => r.retry # "none"
<1> USE DEF TypeInv, TypeFacts
<1>0. \A e \in Events : Matches(rows[e]) /\ rows[e] \in Rows
    BY DEF ClaimMatchesStatus
<1>1. ASSUME NEW e \in Events, Publish(e) \/ RetryComesDue(e) \/ ClaimAges(e)
      PROVE \A f \in Events : Matches(rows'[f])
    BY <1>0, <1>1 DEF Publish, RetryComesDue, ClaimAges, Rows
<1>2. ASSUME NEW d \in Dispatchers, Claim(d) PROVE \A f \in Events : Matches(rows'[f])
    BY <1>0, <1>2 DEF Claim, Claimed, Rows
<1>3. ASSUME NEW d \in Dispatchers, Save(d) PROVE \A f \in Events : Matches(rows'[f])
    <2> DEFINE e == handled[d].event
    <2>1. e \in Events /\ batch[d][e] \in Rows
        BY <1>3, BatchTypes DEF Save, LocalInv
    <2>2. rows' = [rows EXCEPT ![e] = Finished(batch[d][e], handled[d].outcome)]
        BY <1>3 DEF Save
    <2>3. Matches(Finished(batch[d][e], handled[d].outcome))
        BY <2>1, Finishes DEF FinishedFacts
    <2> HIDE DEF Matches, e
    <2> QED BY <1>0, <2>1, <2>2, <2>3
<1>4. ASSUME NEW o \in Operators, RecoverWrite(o) PROVE \A f \in Events : Matches(rows'[f])
    <2>1. recovery[o].event \in Events /\ recovery[o].copy \in Rows
        BY <1>4, RecoveryTypes DEF RecoverWrite
    <2>2. Matches(Recovered(recovery[o].copy))
        BY <2>1 DEF Recovered, Rows
    <2> HIDE DEF Matches
    <2> QED BY <1>0, <1>4, <2>1, <2>2 DEF RecoverWrite
<1>5. ASSUME UNCHANGED rows PROVE \A f \in Events : Matches(rows'[f])
    BY <1>0, <1>5
<1> HIDE DEF Matches
<1>6. \A f \in Events : Matches(rows'[f])
    BY <1>1, <1>2, <1>3, <1>4, <1>5 DEF Next, Dispatch, Handle, Abandon, RecoverRead, vars
<1> QED BY <1>6 DEF ClaimMatchesStatus, Matches

\* "processing" and a claim go together, and an event in error has its next
\* attempt set, whoever wrote the row last.
THEOREM ClaimMatches == Spec => []ClaimMatchesStatus
<1>1. Init => ClaimMatchesStatus
    BY DEF Init, ClaimMatchesStatus
<1> QED BY <1>1, TypeInvariance, NextClaimMatches, PTL DEF Spec

\* A claim that was not overrun is fresh for as long as its dispatcher works on
\* the event, so nobody else can take it, and nobody else has it.
ClaimInv ==
    \A d \in Dispatchers, e \in Events \ overrun :
        e \in DOMAIN batch[d] =>
            /\ rows[e] = batch[d][e]
            /\ rows[e].status = "processing" /\ rows[e].claim = "fresh"
            /\ rows[e].retry # "later"
            /\ \A c \in Dispatchers : e \in DOMAIN batch[c] => c = d

LEMMA NextClaim == TypeInv /\ ClaimInv /\ [Next]_vars => ClaimInv'
<1> SUFFICES ASSUME TypeInv, ClaimInv, [Next]_vars,
                    NEW d \in Dispatchers, NEW e \in Events \ overrun', e \in DOMAIN batch'[d]
             PROVE /\ rows'[e] = batch'[d][e]
                   /\ rows'[e].status = "processing" /\ rows'[e].claim = "fresh"
                   /\ rows'[e].retry # "later"
                   /\ \A c \in Dispatchers : e \in DOMAIN batch'[c] => c = d
    BY DEF ClaimInv
<1> DEFINE Holds == /\ rows'[e] = batch'[d][e]
                    /\ rows'[e].status = "processing" /\ rows'[e].claim = "fresh"
                    /\ rows'[e].retry # "later"
                    /\ \A c \in Dispatchers : e \in DOMAIN batch'[c] => c = d
<1> USE DEF TypeInv, TypeFacts
<1>0. e \notin overrun /\ e \in Events /\ rows[e] \in Rows
    BY DEF Next, Dispatch, Publish, ClaimAges, RetryComesDue, Claim, Handle, Save, Abandon,
           RecoverRead, RecoverWrite, vars
\* What ClaimInv says of e when d held it before.
<1>1. ASSUME e \in DOMAIN batch[d]
      PROVE /\ rows[e] = batch[d][e]
            /\ rows[e].status = "processing" /\ rows[e].claim = "fresh"
            /\ rows[e].retry # "later"
            /\ \A c \in Dispatchers : e \in DOMAIN batch[c] => c = d
    BY <1>0, <1>1 DEF ClaimInv
\* A step that leaves e's row alone and adds it to no batch.
<1>2. ASSUME rows'[e] = rows[e], batch'[d][e] = batch[d][e],
             \A c \in Dispatchers : e \in DOMAIN batch'[c] => e \in DOMAIN batch[c]
      PROVE Holds
    BY <1>1, <1>2
<1>3. ASSUME NEW f \in Events, Publish(f) \/ RetryComesDue(f) \/ ClaimAges(f) PROVE Holds
    <2>1. batch' = batch
        BY <1>3 DEF Publish, RetryComesDue, ClaimAges
    <2>2. ~Publish(e) /\ ~RetryComesDue(e) /\ ~ClaimAges(e)
        BY <1>0, <1>1, <2>1 DEF Publish, RetryComesDue, ClaimAges, HeldBy
    <2>3. rows'[e] = rows[e]
        BY <1>3, <2>2 DEF Publish, RetryComesDue, ClaimAges
    <2> QED BY <1>2, <2>1, <2>3
<1>4. ASSUME NEW c \in Dispatchers, Claim(c) PROVE Holds
    <2>1. batch[c] = NoBatch /\ Claimable \subseteq Events
        BY <1>4 DEF Claim, Claimable
    <2>2. CASE e \in Claimable
        <3>1. Due(rows[e])
            BY <2>2 DEF Claimable
        <3>2. \A b \in Dispatchers : e \notin DOMAIN batch[b]
            BY <1>0, <3>1 DEF ClaimInv, Due
        <3>3. c = d
            BY <1>4, <3>2 DEF Claim
        <3>4. rows'[e] = Claimed(rows[e]) /\ batch'[d] = [f \in Claimable |-> Claimed(rows[f])]
            BY <1>0, <1>4, <2>2, <3>3 DEF Claim
        <3>5. \A b \in Dispatchers : e \in DOMAIN batch'[b] => b = d
            BY <1>4, <3>2, <3>3 DEF Claim
        <3>6. /\ Claimed(rows[e]).status = "processing" /\ Claimed(rows[e]).claim = "fresh"
              /\ Claimed(rows[e]).retry # "later"
            BY <1>0, <3>1 DEF Claimed, Due, Rows
        <3> QED BY <2>2, <3>4, <3>5, <3>6
    <2>3. CASE e \notin Claimable
        <3>1. rows'[e] = rows[e]
            BY <1>0, <1>4, <2>3 DEF Claim
        <3>2. \A b \in Dispatchers : e \in DOMAIN batch'[b] => b # c /\ batch'[b] = batch[b]
            BY <1>4, <2>3 DEF Claim
        <3> QED BY <1>2, <3>1, <3>2
    <2> QED BY <2>2, <2>3
<1>5. ASSUME NEW c \in Dispatchers, Save(c) PROVE Holds
    <2> DEFINE f == handled[c].event
    <2>1. f \in DOMAIN batch[c] /\ f \in Events
        BY <1>5, BatchTypes DEF Save, LocalInv
    <2>2. batch' = [batch EXCEPT ![c] = [g \in DOMAIN batch[c] \ {f} |-> batch[c][g]]]
        BY <1>5 DEF Save
    <2>3. rows' = [rows EXCEPT ![f] = Finished(batch[c][f], handled[c].outcome)]
        BY <1>5 DEF Save
    <2> HIDE DEF f
    <2>4. e # f
        BY <1>1, <2>1, <2>2
    <2>5. rows'[e] = rows[e]
        BY <2>1, <2>3, <2>4
    <2>6. \A b \in Dispatchers : e \in DOMAIN batch'[b] => e \in DOMAIN batch[b]
                                                        /\ batch'[b][e] = batch[b][e]
        BY <2>2
    <2> QED BY <1>2, <2>5, <2>6
<1>6. ASSUME NEW c \in Dispatchers, Abandon(c) PROVE Holds
    <2>1. \A b \in Dispatchers : e \in DOMAIN batch'[b] => batch'[b] = batch[b]
        BY <1>6, BatchTypes DEF Abandon
    <2> QED BY <1>2, <1>6, <2>1 DEF Abandon
<1>7. ASSUME NEW o \in Operators, RecoverWrite(o) PROVE Holds
    <2>1. batch' = batch /\ e \in DOMAIN batch[d]
        BY <1>7 DEF RecoverWrite
    <2>2. recovery[o].event = e => ~StillAsRead(rows[e], recovery[o].copy)
        BY <1>1, <1>7, <2>1 DEF RecoverWrite, StillAsRead, LocalInv
    <2>3. rows'[e] = rows[e]
        BY <1>7, <2>2 DEF RecoverWrite
    <2> QED BY <1>2, <2>1, <2>3
<1>8. ASSUME UNCHANGED <<rows, batch>> PROVE Holds
    BY <1>2, <1>8
<1> HIDE DEF Holds
<1>9. Holds
    BY <1>3, <1>4, <1>5, <1>6, <1>7, <1>8 DEF Next, Dispatch, Handle, RecoverRead, vars
<1> QED BY <1>9 DEF Holds

LEMMA ClaimInvariance == Spec => []ClaimInv
<1>1. Init => ClaimInv
    BY BatchTypes DEF Init, ClaimInv
<1> QED BY <1>1, TypeInvariance, NextClaim, PTL DEF Spec

\* However many dispatchers there are, an event is worked on by one of them at a
\* time, whose copy is the stored row, unless a claim was overrun.
THEOREM ClaimExcludes == Spec => []ClaimIsExclusive
<1>1. ClaimInv => ClaimIsExclusive
    BY DEF ClaimInv, ClaimIsExclusive, HeldBy
<1> QED BY <1>1, ClaimInvariance, PTL

\* Processed and dead-lettered events stay settled unless a claim was overrun:
\* neither a dispatcher's unconditional write nor a recovery that was read
\* earlier touches them.
THEOREM SettledEventsStay == Spec => SettledStaysSettled
<1> DEFINE Stays(e) ==
        /\ rows[e].status = "processed" => rows'[e].status = "processed"
        /\ rows[e].status = "dead_letter" => rows'[e].status \in {"dead_letter", "pending"}
<1>1. ASSUME TypeInv, ClaimInv, [Next]_vars, NEW e \in Events \ overrun' PROVE Stays(e)
    <2> USE DEF TypeInv, TypeFacts
    <2>0. e \notin overrun /\ rows[e] \in Rows
        BY <1>1 DEF Next, Dispatch, Publish, ClaimAges, RetryComesDue, Claim, Handle, Save,
                    Abandon, RecoverRead, RecoverWrite, vars
    <2>1. ASSUME NEW f \in Events, Publish(f) \/ RetryComesDue(f) \/ ClaimAges(f) PROVE Stays(e)
        BY <1>1, <2>0, <2>1 DEF Publish, RetryComesDue, ClaimAges, Rows
    <2>2. ASSUME NEW d \in Dispatchers, Claim(d) PROVE Stays(e)
        BY <2>0, <2>2 DEF Claim, Claimable, Due, Settled
    <2>3. ASSUME NEW d \in Dispatchers, Save(d) PROVE Stays(e)
        <3>1. handled[d].event \in DOMAIN batch[d]
            BY <1>1, <2>3 DEF Save, LocalInv
        <3>2. handled[d].event = e => rows[e].status = "processing"
            BY <1>1, <2>0, <3>1 DEF ClaimInv
        <3> QED BY <1>1, <2>3, <3>2 DEF Save
    <2>4. ASSUME NEW o \in Operators, RecoverWrite(o) PROVE Stays(e)
        <3>1. recovery[o].copy.status \in {"error", "dead_letter"} /\ recovery[o].copy \in Rows
            BY <1>1, <2>4, RecoveryTypes DEF RecoverWrite, LocalInv
        <3>2. Recovered(recovery[o].copy).status = "pending"
            BY <3>1 DEF Recovered, Rows
        <3>3. recovery[o].event \in Events
            BY <1>1, <2>4, RecoveryTypes DEF RecoverWrite
        <3>4. \/ rows' = rows
              \/ /\ rows[recovery[o].event].status = recovery[o].copy.status
                 /\ rows' = [rows EXCEPT ![recovery[o].event] = Recovered(recovery[o].copy)]
            BY <2>4 DEF RecoverWrite, StillAsRead
        <3>5. recovery[o].copy.status # "processed"
            BY <3>1
        <3> QED BY <1>1, <3>2, <3>3, <3>4, <3>5
    <2>5. ASSUME UNCHANGED rows PROVE Stays(e)
        BY <2>5
    <2> HIDE DEF Stays
    <2> QED BY <1>1, <2>1, <2>2, <2>3, <2>4, <2>5
            DEF Next, Dispatch, Handle, Abandon, RecoverRead, vars
<1>2. TypeInv /\ ClaimInv /\ [Next]_vars =>
        [\A e \in Events \ overrun' :
            /\ rows[e].status = "processed" => rows'[e].status = "processed"
            /\ rows[e].status = "dead_letter" => rows'[e].status \in {"dead_letter", "pending"}]_vars
    BY <1>1
<1> QED BY <1>2, TypeInvariance, ClaimInvariance, PTL DEF Spec, SettledStaysSettled

----------------------------------------------------------------------------
(* Delivery *)

\* A success that is about to be written was one.
DeliveredInv ==
    /\ ProcessedWasDelivered
    /\ \A d \in Dispatchers :
        handled[d] # Idle /\ handled[d].outcome = "ok" => handled[d].event \in delivered

LEMMA NextDelivered == TypeInv /\ DeliveredInv /\ [Next]_vars => DeliveredInv'
<1> SUFFICES ASSUME TypeInv, DeliveredInv, [Next]_vars PROVE DeliveredInv'
    OBVIOUS
<1> USE DEF TypeInv, TypeFacts
<1>1. ASSUME NEW e \in Events, Publish(e) \/ RetryComesDue(e) \/ ClaimAges(e) PROVE DeliveredInv'
    BY <1>1 DEF Publish, RetryComesDue, ClaimAges, DeliveredInv, ProcessedWasDelivered, Rows
<1>2. ASSUME NEW d \in Dispatchers, Claim(d) PROVE DeliveredInv'
    BY <1>2 DEF Claim, Claimed, DeliveredInv, ProcessedWasDelivered, Rows
<1>3. ASSUME NEW d \in Dispatchers, Handle(d) PROVE DeliveredInv'
    <2>1. PICK e \in DOMAIN batch[d], outcome \in Outcomes :
            /\ handled' = [handled EXCEPT ![d] = [event |-> e, outcome |-> outcome]]
            /\ delivered' = IF outcome = "ok" THEN delivered \cup {e} ELSE delivered
        BY <1>3 DEF Handle
    <2>2. ProcessedWasDelivered'
        BY <1>3, <2>1 DEF Handle, DeliveredInv, ProcessedWasDelivered
    <2>3. \A c \in Dispatchers :
            handled'[c] # Idle /\ handled'[c].outcome = "ok" => handled'[c].event \in delivered'
        BY <2>1 DEF DeliveredInv
    <2> QED BY <2>2, <2>3 DEF DeliveredInv, Idle
<1>4. ASSUME NEW d \in Dispatchers, Save(d) PROVE DeliveredInv'
    <2> DEFINE e == handled[d].event
               outcome == handled[d].outcome
    <2>1. e \in Events /\ batch[d][e] \in Rows
        BY <1>4, BatchTypes DEF Save, LocalInv
    <2>2. rows' = [rows EXCEPT ![e] = Finished(batch[d][e], outcome)] /\ delivered' = delivered
        BY <1>4 DEF Save
    <2>3. Finished(batch[d][e], outcome).status = "processed" => e \in delivered
        BY <1>4, <2>1, Finishes DEF FinishedFacts, DeliveredInv, Save
    <2>4. ProcessedWasDelivered'
        <3> HIDE DEF e, outcome
        <3> QED BY <2>1, <2>2, <2>3 DEF DeliveredInv, ProcessedWasDelivered
    <2> QED BY <1>4, <2>4 DEF Save, DeliveredInv
<1>5. ASSUME NEW d \in Dispatchers, Abandon(d) PROVE DeliveredInv'
    BY <1>5 DEF Abandon, DeliveredInv, ProcessedWasDelivered
<1>6. ASSUME NEW o \in Operators, RecoverWrite(o) PROVE DeliveredInv'
    <2>1. Recovered(recovery[o].copy).status = "pending"
        BY <1>6, RecoveryTypes DEF RecoverWrite, Recovered, Rows
    <2> QED BY <1>6, <2>1 DEF RecoverWrite, DeliveredInv, ProcessedWasDelivered
<1>7. ASSUME UNCHANGED <<rows, handled, delivered>> PROVE DeliveredInv'
    BY <1>7 DEF DeliveredInv, ProcessedWasDelivered
<1> QED BY <1>1, <1>2, <1>3, <1>4, <1>5, <1>6, <1>7 DEF Next, Dispatch, RecoverRead, vars

\* No event is marked processed unless its handlers succeeded once, whatever
\* crashes, overruns and recoveries there are.
THEOREM ProcessedEventsWereDelivered == Spec => []ProcessedWasDelivered
<1>1. Init => DeliveredInv
    BY DEF Init, DeliveredInv, ProcessedWasDelivered
<1>2. DeliveredInv => ProcessedWasDelivered
    BY DEF DeliveredInv
<1> QED BY <1>1, <1>2, TypeInvariance, NextDelivered, PTL DEF Spec

=============================================================================
