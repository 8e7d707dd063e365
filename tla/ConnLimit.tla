------------------------------ MODULE ConnLimit ------------------------------
(***************************************************************************)
(* connlimit: two WindowLimiters and the AdaptiveLimiter that asks them.   *)
(*                                                                         *)
(* Time is counted in ticks.  A limiter keeps, for every place it has      *)
(* given, the ticks since then, up to the window; older is all the same.   *)
(* A step is a critical section of one limiter's mutex, or a result that   *)
(* reaches the caller.  Each call asks the limiters through a leg of its   *)
(* own; under AnyAllowed the legs are goroutines and one may outlive the   *)
(* call.                                                                   *)
(***************************************************************************)
EXTENDS Naturals, Sequences, FiniteSetsExt

CONSTANTS Calls,       \* calls that can be under way at a time
          Offers,      \* [Calls -> SUBSET (Ops \X Modes)]: what each may be
          windowSize,  \* ticks
          maxRequests, \* [Limiters -> Nat]
          maxWaitTime, \* [Limiters -> Nat], 0 for none
          None

VARIABLES
    requests, \* the ages of the places given, oldest first
    call,     \* [op, mode, pc, result, heard]: what a caller is doing
    leg,      \* [at, left] of a call with a limiter
    done,     \* is the context of the call cancelled?
    given,    \* the ages of what was given in the window since Close
    got,      \* the limiters that gave a place to the call
    overtaken \* did another call get a place while the leg slept?

codeVars == <<requests, call, leg, done>>
ghosts == <<given, got, overtaken>>
vars == <<codeVars, ghosts>>

Limiters == {"primary", "secondary"}
Ops == {"Wait", "Allow"}
Modes == {"PrimaryOnly", "AllRequired", "AnyAllowed"}
Failures == {"LimitExceeded", "WaitTimeout", "Cancelled", "Refused"}
Results == Failures \cup {"nil"}

ConnLimitAssumption ==
    /\ Offers \in [Calls -> SUBSET (Ops \X Modes)]
    /\ windowSize \in Nat \ {0}
    /\ maxRequests \in [Limiters -> Nat]
    /\ maxWaitTime \in [Limiters -> Nat]
    /\ None \notin Results
ASSUME ConnLimitAssumption

NoCall == [op |-> None, mode |-> None, pc |-> "idle", result |-> None, heard |-> None]
NoLeg == [at |-> "off", left |-> 0]

Init ==
    /\ requests = [l \in Limiters |-> <<>>]
    /\ call = [c \in Calls |-> NoCall]
    /\ leg = [c \in Calls |-> [l \in Limiters |-> NoLeg]]
    /\ done = [c \in Calls |-> FALSE]
    /\ given = [l \in Limiters |-> <<>>]
    /\ got = [c \in Calls |-> {}]
    /\ overtaken = [c \in Calls |-> [l \in Limiters |-> FALSE]]

Older(q) == [i \in DOMAIN q |-> Min({q[i] + 1, windowSize})]

\* Those in the window; the oldest come first.
Recent(q) ==
    LET n == Cardinality({i \in DOMAIN q : q[i] < windowSize})
    IN SubSeq(q, Len(q) - n + 1, Len(q))

Tick ==
    /\ requests' = [l \in Limiters |-> Older(requests[l])]
    /\ leg' = [c \in Calls |-> [l \in Limiters |->
                 [leg[c][l] EXCEPT !.left = IF @ = 0 THEN 0 ELSE @ - 1]]]
    /\ given' = [l \in Limiters |-> Recent(Older(given[l]))]
    /\ UNCHANGED <<call, done, got, overtaken>>

-----------------------------------------------------------------------------
(* WindowLimiter *)

\* Mutant: a place is free again one tick early.
KeptShort(q) ==
    LET first == Min({i \in DOMAIN q : q[i] + 1 < windowSize} \cup {Len(q) + 1})
    IN SubSeq(q, first, Len(q))

\* Mutant: what is exactly as old as the window is kept.
KeptLong(q) ==
    LET first == Min({i \in DOMAIN q : q[i] <= windowSize} \cup {Len(q) + 1})
    IN SubSeq(q, first, Len(q))

\* cleanupOldRequests: from the first request after the start of the window.
Kept(q) ==
    LET first == Min({i \in DOMAIN q : q[i] < windowSize} \cup {Len(q) + 1})
    IN SubSeq(q, first, Len(q))

Recorded(q) == Append(q, 0)

Full(l) == Len(Kept(requests[l])) >= maxRequests[l]

\* Allow, called by a leg: where the leg is afterwards depends on the answer.
Allow(c, l, refused) ==
    LET others == {d \in Calls : leg[d][l].at = "sleep"}
    IN IF Full(l)
       THEN /\ requests' = [requests EXCEPT ![l] = Kept(@)]
            /\ leg' = [leg EXCEPT ![c][l].at = refused]
            /\ UNCHANGED ghosts
       ELSE /\ requests' = [requests EXCEPT ![l] = Recorded(Kept(@))]
            /\ leg' = [leg EXCEPT ![c][l].at = "nil"]
            /\ given' = [given EXCEPT ![l] = Append(@, 0)]
            /\ got' = [got EXCEPT ![c] = @ \cup {l}]
            /\ overtaken' = [d \in Calls |-> [overtaken[d] EXCEPT ![l] = d # c /\ (@ \/ d \in others)]]

\* The first attempt of Wait, and the only one of Allow.
Ask(c, l) ==
    /\ leg[c][l].at = "ask"
    /\ Allow(c, l, IF call[c].op = "Wait" THEN "reserve" ELSE "Refused")
    /\ UNCHANGED <<call, done>>

\* How long until the oldest request leaves the window.
WaitTime(l) ==
    IF Full(l) /\ Kept(requests[l]) # <<>> THEN windowSize - Head(Kept(requests[l])) ELSE 0

Reserve(c, l) ==
    /\ leg[c][l].at = "reserve"
    /\ requests' = [requests EXCEPT ![l] = Kept(@)]
    /\ leg' = [leg EXCEPT ![c][l] =
                 IF maxWaitTime[l] > 0 /\ WaitTime(l) > maxWaitTime[l]
                 THEN [at |-> "WaitTimeout", left |-> 0]
                 ELSE [at |-> "sleep", left |-> WaitTime(l)]]
    /\ UNCHANGED <<call, done, ghosts>>

\* The timer, then the second attempt.
Retry(c, l) ==
    /\ leg[c][l].at = "sleep"
    /\ leg[c][l].left = 0
    /\ Allow(c, l, "LimitExceeded")
    /\ UNCHANGED <<call, done>>

LegCancelled(c, l) ==
    /\ leg[c][l].at = "sleep"
    /\ done[c]
    /\ leg' = [leg EXCEPT ![c][l] = [at |-> "Cancelled", left |-> 0]]
    /\ overtaken' = [overtaken EXCEPT ![c][l] = FALSE]
    /\ UNCHANGED <<requests, call, done, given, got>>

Close(l) ==
    /\ requests' = [requests EXCEPT ![l] = <<>>]
    /\ given' = [given EXCEPT ![l] = <<>>]
    /\ UNCHANGED <<call, leg, done, got, overtaken>>

-----------------------------------------------------------------------------
(* AdaptiveLimiter *)

\* The limiters asked at once; the others come later, if at all.
AskedFirst(op, mode) ==
    IF op = "Wait" /\ mode = "AnyAllowed" THEN Limiters ELSE {"primary"}

Begin(c, op, mode) ==
    /\ call[c].pc = "idle"
    /\ call' = [call EXCEPT ![c] = [NoCall EXCEPT !.op = op, !.mode = mode, !.pc = "waiting"]]
    /\ leg' = [leg EXCEPT ![c] = [l \in Limiters |->
                 IF l \in AskedFirst(op, mode) THEN [NoLeg EXCEPT !.at = "ask"] ELSE NoLeg]]
    /\ got' = [got EXCEPT ![c] = {}]
    /\ UNCHANGED <<requests, done, given, overtaken>>

\* Of no consequence once all legs have ended.
CancelContext(c) ==
    /\ call[c].op = "Wait"
    /\ ~done[c]
    /\ \E l \in Limiters : leg[c][l].at \in {"ask", "reserve", "sleep"}
    /\ done' = [done EXCEPT ![c] = TRUE]
    /\ UNCHANGED <<requests, call, leg, ghosts>>

\* What the result r of a limiter means to the call: a further question, the end, or,
\* under AnyAllowed, that the other goroutine is awaited.
Goes(m, l, r) ==
    IF m.pc = "returned" THEN "heard"
    ELSE CASE m.mode = "AllRequired" /\ l = "primary" /\ r = "nil" -> "secondary"
           [] m.mode = "AnyAllowed" /\ m.op = "Allow" /\ l = "primary" /\ r # "nil" -> "secondary"
           [] m.mode = "AnyAllowed" /\ m.op = "Wait" /\ m.heard = None /\ r # "nil" -> "heard"
           [] OTHER -> "end"

\* Both failed: the error of whoever was heard first.
Outcome(m, r) == IF r # "nil" /\ m.heard # None THEN m.heard ELSE r

\* Mutant: the first result decides.
ReportFirst(c, l) ==
    LET r == leg[c][l].at
    IN /\ r \in Results
       /\ leg' = [leg EXCEPT ![c] = [k \in Limiters |->
                    IF k = l THEN NoLeg
                    ELSE IF Goes(call[c], l, r) = k THEN [NoLeg EXCEPT !.at = "ask"] ELSE leg[c][k]]]
       /\ call' = IF call[c].pc = "returned" \/ Goes(call[c], l, r) = "secondary" THEN call
                  ELSE [call EXCEPT ![c] = [@ EXCEPT !.pc = "returned", !.result = r]]
       /\ overtaken' = [overtaken EXCEPT ![c][l] = FALSE]
       /\ UNCHANGED <<requests, done, given, got>>

\* Mutant: nobody takes the late result from the channel, which holds none.
ReportWaited(c, l) ==
    LET r == leg[c][l].at
        m == call[c]
    IN /\ r \in Results
       /\ m.pc = "waiting"
       /\ leg' = [leg EXCEPT ![c] = [k \in Limiters |->
                    IF k = l THEN NoLeg
                    ELSE IF Goes(m, l, r) = k THEN [NoLeg EXCEPT !.at = "ask"] ELSE leg[c][k]]]
       /\ call' = [call EXCEPT ![c] =
                    CASE Goes(m, l, r) = "heard" -> [m EXCEPT !.heard = r]
                      [] Goes(m, l, r) = "end" -> [m EXCEPT !.pc = "returned", !.result = Outcome(m, r)]
                      [] OTHER -> m]
       /\ overtaken' = [overtaken EXCEPT ![c][l] = FALSE]
       /\ UNCHANGED <<requests, done, given, got>>

\* A leg has ended and its result is looked at.  One that comes after the call has
\* returned is left in the channel.
Report(c, l) ==
    LET r == leg[c][l].at
        m == call[c]
    IN /\ r \in Results
       /\ leg' = [leg EXCEPT ![c] = [k \in Limiters |->
                    IF k = l THEN NoLeg
                    ELSE IF Goes(m, l, r) = k THEN [NoLeg EXCEPT !.at = "ask"] ELSE leg[c][k]]]
       /\ call' = [call EXCEPT ![c] =
                    CASE Goes(m, l, r) = "heard" -> [m EXCEPT !.heard = r]
                      [] Goes(m, l, r) = "end" -> [m EXCEPT !.pc = "returned", !.result = Outcome(m, r)]
                      [] OTHER -> m]
       /\ overtaken' = [overtaken EXCEPT ![c][l] = FALSE]
       /\ UNCHANGED <<requests, done, given, got>>

\* Nothing is left of the call: another may begin.
End(c) ==
    /\ call[c].pc = "returned"
    /\ \A l \in Limiters : leg[c][l] = NoLeg
    /\ call' = [call EXCEPT ![c] = NoCall]
    /\ done' = [done EXCEPT ![c] = FALSE]
    /\ got' = [got EXCEPT ![c] = {}]
    /\ UNCHANGED <<requests, leg, given, overtaken>>

-----------------------------------------------------------------------------

LegStep(c, l) == Ask(c, l) \/ Reserve(c, l) \/ Retry(c, l) \/ LegCancelled(c, l) \/ Report(c, l)

Next ==
    \/ Tick
    \/ \E l \in Limiters : Close(l)
    \/ \E c \in Calls :
         \/ \E t \in Offers[c] : Begin(c, t[1], t[2])
         \/ CancelContext(c)
         \/ \E l \in Limiters : LegStep(c, l)
         \/ End(c)

Spec == Init /\ [][Next]_vars

\* Goroutines run and time passes.  Nobody has to cancel or to close.
FairSpec ==
    /\ Spec
    /\ WF_vars(Tick)
    /\ \A c \in Calls : WF_vars(End(c)) /\ \A l \in Limiters : WF_vars(LegStep(c, l))

-----------------------------------------------------------------------------

Ages == 0..windowSize

\* Types; the requests are in the order of their times, which cleanupOldRequests and
\* Reserve rely on.
TypeOK ==
    /\ \A l \in Limiters :
         /\ requests[l] \in Seq(Ages)
         /\ \A i, j \in DOMAIN requests[l] : i < j => requests[l][i] >= requests[l][j]
         /\ given[l] \in Seq(0..windowSize - 1)
    /\ call \in [Calls -> [op : Ops \cup {None}, mode : Modes \cup {None},
                           pc : {"idle", "waiting", "returned"},
                           result : Results \cup {None}, heard : Results \cup {None}]]
    /\ leg \in [Calls -> [Limiters ->
                  [at : {"off", "ask", "reserve", "sleep"} \cup Results, left : Ages]]]
    /\ done \in [Calls -> BOOLEAN]
    /\ got \in [Calls -> SUBSET Limiters]
    /\ overtaken \in [Calls -> [Limiters -> BOOLEAN]]

\* In any stretch of time as long as the window a limiter gives at most maxRequests
\* places, whoever asks and however the attempts of the calls interleave; Close alone
\* makes it forget. (And the types.)
WindowBound == TypeOK /\ \A l \in Limiters : Len(given[l]) <= maxRequests[l]

\* What a call reports and what it has taken from the limiters belong together: a call
\* that returns nil has what its mode asks for, one that fails has nothing, but for the
\* primary's place under AllRequired.
OutcomeMatches ==
    \A c \in Calls : call[c].pc = "returned" =>
        LET ok == call[c].result = "nil"
        IN CASE call[c].mode = "PrimaryOnly" -> got[c] = (IF ok THEN {"primary"} ELSE {})
             [] call[c].mode = "AllRequired" -> IF ok THEN got[c] = Limiters
                                                ELSE got[c] \subseteq {"primary"}
             [] call[c].mode = "AnyAllowed"  -> ok = (got[c] # {})

\* Wait computes how long to sleep under one lock and tries again under another: that
\* is in vain only if another call was given a place in the meantime.
RefusedWhenOvertaken ==
    \A c \in Calls, l \in Limiters :
        leg[c][l].at = "LimitExceeded" => overtaken[c][l] \/ maxRequests[l] = 0

\* Every call ends, and with it the goroutine that AnyAllowed leaves behind.
CallsEnd == \A c \in Calls : call[c].pc = "waiting" ~> call[c].pc = "idle"

=============================================================================
