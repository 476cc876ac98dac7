---------------------------- MODULE AgentProofs ----------------------------
(***************************************************************************)
(* What AgentLoop promises for any tools, completions and limits: a stop is  *)
(* heeded, and a claim was checked.                                          *)
(***************************************************************************)
EXTENDS AgentLoop, TLAPS

(* A turn that goes on has said nothing, and a click that nobody has looked   *)
(* at is flagged, unless the task was seen to be done.                       *)
ClaimInv ==
  /\ outcome # "none" => pc \in {"reporting", "over"}
  /\ unseen => unverified \/ pinned
  /\ ClaimIsChecked

(* What the end of a request, of a batch or of a call makes of the turn.      *)
Goes ==
  /\ \/ outcome' = outcome
     \/ pc' \in {"reporting", "over"} /\ outcome' \in {"cancelled", "error", "limit", "injection"}
  /\ Aborted => /\ pc' # "calling"
                /\ outcome' \in {outcome, "cancelled", "error"}
                /\ outcome' = "error" => outcome = "error" \/ "stop" \notin signal

LEMMA RequestGoes == NextRequest => Goes /\ pc' # "calling"
  BY DEF NextRequest, Thrown, Over, Returns, Goes

LEMMA BatchGoes == \A t, notes : EndBatch(t, notes) => Goes /\ pc' # "calling"
  BY RequestGoes DEF EndBatch, Goes

LEMMA ProceedGoes == \A t, notes, r, i : Proceed(t, notes, r, i) => Goes
<1> SUFFICES ASSUME NEW t, NEW notes, NEW r, NEW i, Proceed(t, notes, r, i) PROVE Goes
  OBVIOUS
<1>1. CASE ~Aborted /\ \E j \in i..Len(calls') :
             IF injected' /\ Mutates(calls'[j])
             THEN Returns("injection") /\ UNCHANGED at
             ELSE pc' = "calling" /\ at' = j /\ UNCHANGED outcome
  BY <1>1 DEF Goes, Returns
<1>2. CASE \E u, n : EndBatch(u, n)
  BY <1>2, BatchGoes
<1> QED
  BY <1>1, <1>2 DEF Proceed

-----------------------------------------------------------------------------
(* A claim was checked.                                                       *)

LEMMA ClaimInit == Init => ClaimInv
  BY DEF Init, ClaimInv, ClaimIsChecked

(* A step after which the model has said nothing keeps ClaimInv if it keeps   *)
(* the flag.                                                                  *)
LEMMA GoesClaims ==
  ASSUME ClaimInv, outcome = "none", Goes, unseen' => unverified' \/ pinned'
  PROVE  ClaimInv'
  BY DEF ClaimInv, Goes, ClaimIsChecked

LEMMA EndsClaims ==
  ASSUME ClaimInv, outcome = "none", NEW o, Over(o) \/ Returns(o), o \notin {"said", "noted", "replaced"},
         UNCHANGED closing
  PROVE  ClaimInv'
  BY DEF ClaimInv, Over, Returns, ClaimIsChecked, closing

LEMMA RepliesClaims == ASSUME ClaimInv, NEW text, CloseVerified(text), pc = "asking" PROVE ClaimInv'
<1>0. outcome = "none"
  BY DEF ClaimInv
<1>1. CASE unverified /\ "evidence" \notin nudges
  BY <1>1 DEF CloseVerified, ClaimInv, ClaimIsChecked
<1>2. \A kind : Nudge(kind) => ClaimInv'
  BY <1>0, RequestGoes, GoesClaims DEF Nudge, ClaimInv
<1>3. CASE unverified /\ "evidence" \in nudges /\ "inspect" \notin nudges
  BY <1>2, <1>3 DEF CloseVerified
<1>4. CASE unverified => "inspect" \in nudges
  <2> USE <1>4
  <2>1. CASE Claim /\ UNCHANGED <<step, batch, closing>>
    BY <2>1 DEF Claim, Over, Returns, ClaimInv, ClaimIsChecked, closing
  <2>2. CASE Unusable \/ Ends("closed")
    BY <1>0, <2>2, EndsClaims DEF Ends, Unusable, Thrown
  <2>3. Close(text) => ClaimInv'
    BY <2>1, <2>2, <1>2 DEF Close
  <2>4. CASE Close(text)
    BY <2>3, <2>4
  <2>5. \/ Close(text) 
        \/ unverified /\ "evidence" \notin nudges
        \/ unverified /\ "evidence" \in nudges /\ "inspect" \notin nudges
    BY DEF CloseVerified
  <2> QED
    BY <2>4, <2>5, <1>1, <1>3
<1> QED
  BY <1>1, <1>3, <1>4

LEMMA CalledClaims == ASSUME ClaimInv, NEW r, Called(r) PROVE ClaimInv'
<1> DEFINE c == calls[at]
<1>1. pc = "calling" /\ outcome = "none" /\ UNCHANGED pinned
  BY DEF Called, ClaimInv
<1>2. ASSUME UNCHANGED <<unverified, unseen, outcome>>, pc' = "finding" PROVE ClaimInv'
  BY <1>1, <1>2 DEF ClaimInv, ClaimIsChecked
<1>3. ASSUME NEW notes, SettleOk(c, r, notes) PROVE ClaimInv'
  <2>1. unseen' => unverified' \/ pinned'
    BY <1>1, <1>3 DEF SettleOk, Verified, ClaimInv
  <2>2. Goes
    BY <1>1, <1>3, ProceedGoes DEF SettleOk, Goes
  <2> QED
    BY <1>1, <2>1, <2>2, GoesClaims
<1>4. ASSUME NEW notes, SettleFailed(c, notes) PROVE ClaimInv'
  <2>1. unseen' => unverified' \/ pinned'
    BY <1>1, <1>4 DEF SettleFailed, ClaimInv
  <2>2. Goes \/ Returns("stuck")
    BY <1>4, ProceedGoes DEF SettleFailed
  <2>3. CASE Returns("stuck")
    BY <1>1, <2>1, <2>3 DEF Over, Returns, ClaimInv, ClaimIsChecked
  <2> QED
    BY <1>1, <2>1, <2>2, <2>3, GoesClaims
<1> QED
  BY <1>2, <1>3, <1>4 DEF Called, batch

LEMMA StepClaims == ClaimInv /\ [Next]_vars => ClaimInv'
<1> SUFFICES ASSUME ClaimInv, [Next]_vars PROVE ClaimInv'
  OBVIOUS
<1>1. CASE Prepared \/ Began \/ Reported
  BY <1>1 DEF Prepared, Began, Reported, Thrown, Over, Returns, closing, ClaimInv, ClaimIsChecked
<1>2. CASE RouterFails \/ CallThrows
  BY <1>2 DEF RouterFails, CallThrows, Thrown, Over, Returns, closing, ClaimInv, ClaimIsChecked
<1>3. ASSUME NEW b, Begins(b), pc = "asking" PROVE ClaimInv'
  <2>1. Goes
    BY <1>3, ProceedGoes DEF Begins
  <2> QED
    BY <1>3, <2>1, GoesClaims DEF Begins, closing, ClaimInv
<1>0. pc \notin {"reporting", "over"} => outcome = "none"
  BY DEF ClaimInv
<1>4. ASSUME NEW text, Replies(text) PROVE ClaimInv'
  BY <1>0, <1>3, <1>4, RepliesClaims, EndsClaims DEF Replies, Unusable, Thrown
<1>5. ASSUME Reclassify, pc = "asking" PROVE ClaimInv'
  BY <1>5 DEF Reclassify, closing, ClaimInv, ClaimIsChecked
<1>6. CASE Admits
  BY <1>5, <1>6 DEF Admits
<1>7. CASE RepliesMarkup
  BY <1>0, <1>5, <1>7, RequestGoes, GoesClaims DEF RepliesMarkup, Nudge, ClaimInv
<1>8. ASSUME NEW b, Calls(b) PROVE ClaimInv'
  BY <1>0, <1>3, <1>5, <1>8, EndsClaims DEF Calls, Ends
<1>9. ASSUME NEW r, Called(r) PROVE ClaimInv'
  BY <1>9, CalledClaims
<1>10. CASE Found
  <2>1. PICK notes : SettleFailed(calls[at], notes)
    BY <1>10 DEF Found
  <2>2. pc = "finding" /\ unseen' => unverified' \/ pinned'
    BY <1>10, <2>1 DEF Found, SettleFailed, ClaimInv
  <2>3. Goes \/ Returns("stuck")
    BY <2>1, ProceedGoes DEF SettleFailed
  <2>4. CASE Returns("stuck")
    BY <1>10, <2>2, <2>4 DEF Found, Over, Returns, ClaimInv, ClaimIsChecked
  <2> QED
    BY <1>0, <1>10, <2>2, <2>3, <2>4, GoesClaims DEF Found
<1>11. CASE Pins
  BY <1>0, <1>11, BatchGoes, GoesClaims DEF Pins
<1>12. CASE Looked
  BY <1>0, <1>12, ProceedGoes, GoesClaims DEF Looked, closing, ClaimInv
<1>13. CASE Napped
  BY <1>0, <1>13, RequestGoes, GoesClaims DEF Napped, closing, ClaimInv
<1>14. CASE EvidenceRead
  BY <1>0, <1>14, RequestGoes, GoesClaims DEF EvidenceRead, ClaimInv
<1>15. CASE ReRun
  BY <1>15 DEF ReRun, Thrown, Over, Returns, closing, ClaimInv, ClaimIsChecked
<1>16. ASSUME NEW why, Abort(why) PROVE ClaimInv'
  BY <1>16 DEF Abort, closing, ClaimInv, ClaimIsChecked
<1>17. CASE UNCHANGED vars
  BY <1>17 DEF vars, closing, ClaimInv, ClaimIsChecked
<1> QED
  BY <1>1, <1>2, <1>4, <1>6, <1>7, <1>8, <1>9, <1>10, <1>11, <1>12, <1>13, <1>14, <1>15, <1>16,
     <1>17 DEF Next, LoopStep

(* The words of the model end the turn only if somebody has read the page     *)
(* since its last click or input, the task was seen to be done, or the model  *)
(* was asked to look.                                                         *)
THEOREM ClaimsAreChecked == Spec => []ClaimIsChecked
<1>1. ClaimInv => ClaimIsChecked
  BY DEF ClaimInv
<1> QED
  BY <1>1, ClaimInit, StepClaims, PTL DEF Spec

-----------------------------------------------------------------------------
(* A stop is heeded.                                                          *)

Heeded ==
  /\ ~(pc' = "calling" /\ <<pc, at>> # <<pc', at'>>)
  /\ outcome' \in {"none", "cancelled", "error", "stuck", "refused"}
  /\ outcome' = "error" => "stop" \notin signal \/ pc = "preparing"

LEMMA GoesHeeded ==
  ASSUME ClaimInv, Aborted, outcome = "none", Goes
  PROVE  Heeded
  BY DEF ClaimInv, Goes, Heeded

LEMMA ThrownHeeded == ASSUME Thrown PROVE Heeded
  BY DEF Thrown, Over, Returns, Heeded

LEMMA FailedHeeded ==
  ASSUME ClaimInv, Aborted, outcome = "none", NEW c, NEW notes, SettleFailed(c, notes)
  PROVE  Heeded
<1>1. Goes \/ Returns("stuck")
  BY ProceedGoes DEF SettleFailed
<1> QED
  BY <1>1, GoesHeeded DEF Over, Returns, Heeded

LEMMA CalledHeeded ==
  ASSUME ClaimInv, Aborted, NEW r, Called(r)
  PROVE  Heeded
<1>1. pc = "calling" /\ outcome = "none"
  BY DEF Called, ClaimInv
<1>2. ASSUME pc' = "finding", UNCHANGED outcome PROVE Heeded
  BY <1>1, <1>2 DEF Heeded, ClaimInv
<1>3. ASSUME NEW c, NEW notes, SettleOk(c, r, notes) PROVE Heeded
  BY <1>1, <1>3, ProceedGoes, GoesHeeded DEF SettleOk, Goes
<1> QED
  BY <1>1, <1>2, <1>3, FailedHeeded DEF Called

LEMMA StepHeeded ==
  ASSUME ClaimInv, Aborted, outcome = "none", Next
  PROVE  Heeded
<1>1. CASE Prepared \/ Began \/ Reported
  BY <1>1, ThrownHeeded DEF Prepared, Began, Reported, ClaimInv, Over, Returns, Heeded
<1>2. CASE RouterFails \/ CallThrows
  BY <1>2, ThrownHeeded DEF RouterFails, CallThrows
<1>3. ~Admits /\ ~RepliesMarkup /\ \A text : ~Replies(text) /\ \A b : ~Calls(b)
  BY DEF Admits, RepliesMarkup, Replies, Calls
<1>4. ASSUME NEW r, Called(r) PROVE Heeded
  BY <1>4, CalledHeeded
<1>5. CASE Found
  BY <1>5, FailedHeeded DEF Found
<1>6. CASE Pins
  BY <1>6, BatchGoes, GoesHeeded DEF Pins
<1>7. CASE Looked
  BY <1>7, ProceedGoes, GoesHeeded DEF Looked
<1>8. CASE Napped
  BY <1>8, RequestGoes, GoesHeeded DEF Napped
<1>9. CASE EvidenceRead
  BY <1>9, RequestGoes, GoesHeeded DEF EvidenceRead
<1>10. CASE ReRun
  BY <1>10, ThrownHeeded DEF ReRun, Heeded, ClaimInv
<1>11. ASSUME NEW why, Abort(why) PROVE Heeded
  BY <1>11 DEF Abort, Heeded, ClaimInv, batch
<1> QED
  BY <1>1, <1>2, <1>3, <1>4, <1>5, <1>6, <1>7, <1>8, <1>9, <1>10, <1>11 DEF Next, LoopStep

(* After a stop or the time-out no tool of the model begins and the loop      *)
(* returns no text of it; a stop inside the loop is reported as cancelled.     *)
THEOREM StopsAreHeeded == Spec => StopIsHeeded
<1>1. ClaimInv /\ [Next]_vars => [Aborted /\ outcome = "none" => Heeded]_vars
  BY StepHeeded
<1>2. [Aborted /\ outcome = "none" => Heeded]_vars <=>
        [Aborted /\ outcome = "none" =>
           /\ ~(pc' = "calling" /\ <<pc, at>> # <<pc', at'>>)
           /\ outcome' \in {"none", "cancelled", "error", "stuck", "refused"}
           /\ outcome' = "error" => "stop" \notin signal \/ pc = "preparing"]_vars
  BY DEF Heeded
<1> QED
  BY <1>1, <1>2, ClaimInit, StepClaims, PTL DEF Spec, StopIsHeeded

-----------------------------------------------------------------------------
(* Calls are answered.                                                        *)

(* t answers the first n calls, in order, and says nothing else.              *)
Answers(t, n) ==
  /\ t \in Seq(Nat)
  /\ \A i \in 1..Len(t) : t[i] \in 1..n
  /\ \A i, k \in 1..Len(t) : i < k => t[i] <= t[k]
  /\ \A j \in 1..n : \E i \in 1..Len(t) : t[i] = j

LEMMA NoneAnswered == Answers(<< >>, 0)
  BY DEF Answers

(* Behind the answers to n calls, s answers those up to m.                    *)
LEMMA AnswersConcat ==
  ASSUME NEW n \in Nat, NEW m \in Nat, n <= m, NEW t, NEW s, Answers(t, n), s \in Seq(Nat),
         \A i \in 1..Len(s) : s[i] \in n + 1..m,
         \A i, k \in 1..Len(s) : i < k => s[i] <= s[k],
         \A j \in n + 1..m : \E i \in 1..Len(s) : s[i] = j
  PROVE  Answers(t \o s, m)
<1> DEFINE u == t \o s
           l == Len(t)
<1>1. t \in Seq(Nat) /\ l \in Nat /\ Len(s) \in Nat
  BY DEF Answers
<1>2. u \in Seq(Nat) /\ Len(u) = l + Len(s)
  BY <1>1
<1>3. \A i \in 1..l : u[i] = t[i]
  BY <1>1
<1>4. \A i \in 1..Len(s) : u[l + i] = s[i]
  BY <1>1
<1>5. \A i \in 1..Len(u) : i \in 1..l \/ \E k \in 1..Len(s) : i = l + k
  <2> SUFFICES ASSUME NEW i \in 1..Len(u), i \notin 1..l PROVE \E k \in 1..Len(s) : i = l + k
    OBVIOUS
  <2>1. i - l \in 1..Len(s) /\ i = l + (i - l)
    BY <1>1, <1>2
  <2> QED
    BY <2>1
<1>6. \A i \in 1..l : t[i] \in 1..n
  BY DEF Answers
<1> HIDE DEF u, l
<1>7. ASSUME NEW i \in 1..Len(u) PROVE u[i] \in 1..m
  <2>1. CASE i \in 1..l
    <3>1. t[i] \in 1..n
      BY <2>1, <1>6
    <3> QED
      BY <3>1, <2>1, <1>3
  <2>2. ASSUME NEW k \in 1..Len(s), i = l + k PROVE u[i] \in 1..m
    BY <2>2, <1>4, SMTT(30)
  <2> QED
    BY <2>1, <2>2, <1>5
<1>8. ASSUME NEW i \in 1..Len(u), NEW k \in 1..Len(u), i < k PROVE u[i] <= u[k]
  <2>1. CASE k \in 1..l
    <3>0. i \in 1..l
      BY <2>1, <1>8, <1>1, <1>2
    <3>1. i \in 1..l /\ t[i] <= t[k]
      BY <3>0, <2>1, <1>8 DEF Answers, l
    <3> QED
      BY <3>1, <2>1, <1>3
  <2>2. CASE k \notin 1..l
    <3>1. PICK b \in 1..Len(s) : k = l + b
      BY <2>2, <1>5
    <3>2. CASE i \in 1..l
      <4>1. u[i] = t[i] /\ u[k] = s[b]
        BY <3>1, <3>2, <1>3, <1>4
      <4>2. t[i] \in 1..n /\ s[b] \in n + 1..m
        BY <3>2, <1>6
      <4> QED
        BY <4>1, <4>2, SMTT(30)
    <3>3. CASE i \notin 1..l
      <4>1. PICK a \in 1..Len(s) : i = l + a
        BY <3>3, <1>5
      <4>2. a < b
        BY <4>1, <3>1, <1>8, <1>1
      <4> QED
        BY <4>1, <4>2, <3>1, <1>4
    <3> QED
      BY <3>2, <3>3
  <2> QED
    BY <2>1, <2>2
<1>9. ASSUME NEW j \in 1..m PROVE \E i \in 1..Len(u) : u[i] = j
  <2>1. CASE j \in 1..n
    <3>1. PICK i \in 1..Len(t) : t[i] = j
      BY <2>1 DEF Answers
    <3>2. i \in 1..Len(u) /\ u[i] = j
      BY <3>1, <1>1, <1>2, <1>3 DEF l
    <3> QED
      BY <3>2
  <2>2. CASE j \in n + 1..m
    <3>1. PICK i \in 1..Len(s) : s[i] = j
      BY <2>2
    <3>2. l + i \in 1..Len(u) /\ u[l + i] = j
      BY <3>1, <1>1, <1>2, <1>4, SMTT(30)
    <3> QED
      BY <3>2
  <2> QED
    BY <2>1, <2>2
<1> QED
  BY <1>2, <1>7, <1>8, <1>9 DEF Answers, u

LEMMA AnsweredNext ==
  ASSUME NEW n \in Nat, NEW t, Answers(t, n)
  PROVE  Answers(t \o <<n + 1>>, n + 1) /\ Answers(t \o <<n + 1, n + 1>>, n + 1)
<1>1. Answers(t \o <<n + 1>>, n + 1)
  <2> DEFINE s == <<n + 1>>
  <2>1. s \in Seq(Nat) /\ Len(s) = 1 /\ s[1] = n + 1
    OBVIOUS
  <2> HIDE DEF s
  <2>2. Answers(t \o s, n + 1)
    BY <2>1, AnswersConcat
  <2> QED
    BY <2>2 DEF s
<1>2. Answers(t \o <<n + 1, n + 1>>, n + 1)
  <2> DEFINE s == <<n + 1, n + 1>>
  <2>1. s \in Seq(Nat) /\ Len(s) = 2 /\ s[1] = n + 1 /\ s[2] = n + 1
    OBVIOUS
  <2> HIDE DEF s
  <2>2. Answers(t \o s, n + 1)
    BY <2>1, AnswersConcat
  <2> QED
    BY <2>2 DEF s
<1> QED
  BY <1>1, <1>2

LEMMA AnsweredMany ==
  ASSUME NEW i \in Nat \ {0}, NEW t, Answers(t, i - 1), NEW m \in Nat
  PROVE  Answers(t \o [k \in 1..m |-> i + k - 1], i - 1 + m)
<1> DEFINE s == [k \in 1..m |-> i + k - 1]
<1>1. s \in Seq(Nat) /\ Len(s) = m /\ \A k \in 1..m : s[k] = i + k - 1
  OBVIOUS
<1>2. \A j \in i - 1 + 1..i - 1 + m : \E k \in 1..m : s[k] = j
  <2> SUFFICES ASSUME NEW j \in i - 1 + 1..i - 1 + m PROVE \E k \in 1..m : s[k] = j
    OBVIOUS
  <2>1. j - i + 1 \in 1..m /\ s[j - i + 1] = j
    BY <1>1
  <2> QED
    BY <2>1
<1> HIDE DEF s
<1>3. \A k \in 1..Len(s) : s[k] \in i - 1 + 1..i - 1 + m
  BY <1>1
<1>4. \A j, k \in 1..Len(s) : j < k => s[j] <= s[k]
  BY <1>1
<1>5. i - 1 \in Nat /\ i - 1 + m \in Nat /\ i - 1 <= i - 1 + m
  OBVIOUS
<1>6. Answers(t \o s, i - 1 + m)
  BY <1>1, <1>2, <1>3, <1>4, <1>5, AnswersConcat
<1> QED
  BY <1>6 DEF s

(* tail behind the assistant message c: what CallsAnswered says of the router. *)
Replied(t, c, p) ==
  /\ t \in Seq(Nat)
  /\ \A j \in 1..Len(c) : p \/ \E i \in 1..Len(t) : t[i] = j
  /\ \A i, k \in 1..Len(t) : i < k /\ t[k] # 0 => t[i] # 0 /\ t[i] <= t[k]

LEMMA AnswersReplied ==
  ASSUME NEW c \in Seq(Call), NEW p \in BOOLEAN, NEW t, NEW n \in Nat, Answers(t, n), p \/ n = Len(c)
  PROVE  Replied(t, c, p)
<1>1. \A i \in 1..Len(t) : t[i] # 0
  BY DEF Answers
<1> QED
  BY <1>1 DEF Answers, Replied

LEMMA NoteReplied ==
  ASSUME NEW c, NEW p, NEW t, Replied(t, c, p)
  PROVE  Replied(Append(t, 0), c, p)
<1> DEFINE u == Append(t, 0)
<1>1. t \in Seq(Nat) /\ Len(t) \in Nat
  BY DEF Replied
<1>2. u \in Seq(Nat) /\ Len(u) = Len(t) + 1 /\ u[Len(t) + 1] = 0
  BY <1>1
<1>3. \A i \in 1..Len(t) : i \in 1..Len(u) /\ u[i] = t[i]
  BY <1>1
<1> HIDE DEF u
<1>4. \A j \in 1..Len(c) : p \/ \E i \in 1..Len(u) : u[i] = j
  BY <1>3 DEF Replied
<1>5. ASSUME NEW i \in 1..Len(u), NEW k \in 1..Len(u), i < k, u[k] # 0
      PROVE  u[i] # 0 /\ u[i] <= u[k]
  <2>1. k # Len(t) + 1
    BY <1>2, <1>5
  <2>2. i \in 1..(Len(t) + 1) /\ k \in 1..(Len(t) + 1)
    BY <1>2
  <2>3. i \in 1..Len(t) /\ k \in 1..Len(t)
    <3> DEFINE l == Len(t)
    <3>1. l \in Nat /\ i \in 1..(l + 1) /\ k \in 1..(l + 1) /\ i < k /\ k # l + 1
      BY <1>1, <1>5, <2>2, <2>1
    <3> HIDE DEF l
    <3>2. i \in 1..l /\ k \in 1..l
      BY <3>1
    <3> QED
      BY <3>2 DEF l
  <2>4. u[i] = t[i] /\ u[k] = t[k] /\ t[k] # 0
    BY <2>3, <1>3, <1>5
  <2>5. t[i] # 0 /\ t[i] <= t[k]
    BY <2>3, <2>4, <1>5 DEF Replied
  <2> QED
    BY <2>4, <2>5
<1> QED
  BY <1>2, <1>4, <1>5 DEF Replied, u

(* Between two calls the earlier ones are answered, behind the batch all are. *)
AnswerInv ==
  /\ calls \in Seq(Call) /\ pinned \in BOOLEAN
  /\ pc \in {"preparing", "starting"} => calls = << >> /\ tail = << >>
  /\ pc \in {"calling", "finding"} => at \in 1..Len(calls) /\ Answers(tail, at - 1)
  /\ pc = "looking" => at \in 1..Len(calls) /\ Answers(tail, at)
  /\ pc \in {"napping", "asking", "evidence"} => Replied(tail, calls, pinned)

LEMMA BatchAnswers ==
  ASSUME calls' \in Seq(Call), pinned' \in BOOLEAN, NEW t, NEW notes, EndBatch(t, notes),
         Replied(t, calls', pinned')
  PROVE  AnswerInv'
<1>1. Replied(tail', calls', pinned')
  BY NoteReplied DEF EndBatch
<1>2. pc' \in {"napping", "asking", "reporting", "over"}
  BY DEF EndBatch, NextRequest, Thrown, Over, Returns
<1> QED
  BY <1>1, <1>2 DEF AnswerInv

(* t answers the calls of c before call i, or all of them.                     *)
Reached(c, t, i) == i \in Nat \ {0} /\ i <= Len(c) + 1 /\ Answers(t, i - 1)

LEMMA ReachedNext ==
  ASSUME NEW c \in Seq(Call), NEW t, NEW i \in 1..Len(c), Answers(t, i)
  PROVE  Reached(c, t, i + 1)
<1>1. i + 1 \in Nat \ {0} /\ i + 1 <= Len(c) + 1 /\ i + 1 - 1 = i
  OBVIOUS
<1> QED
  BY <1>1 DEF Reached

LEMMA ProceedAnswers ==
  ASSUME calls' \in Seq(Call), pinned' \in BOOLEAN
  PROVE  \A t, notes, r, i : Reached(calls', t, i) /\ Proceed(t, notes, r, i) => AnswerInv'
<1> SUFFICES ASSUME NEW t, NEW notes, NEW r, NEW i, Reached(calls', t, i), Proceed(t, notes, r, i)
             PROVE  AnswerInv'
  OBVIOUS
<1>0. i \in Nat \ {0} /\ i <= Len(calls') + 1 /\ Answers(t, i - 1)
  BY DEF Reached
<1> USE DEF AnswerInv
<1>1. ASSUME NEW j \in i..Len(calls'), tail' = t \o [k \in 1..(j - i) |-> i + k - 1],
             (pc' = "reporting") \/ (pc' = "calling" /\ at' = j)
      PROVE  AnswerInv'
  <2>1. j - i \in Nat /\ i - 1 + (j - i) = j - 1 /\ j \in 1..Len(calls')
    BY <1>0
  <2>2. Answers(tail', j - 1)
    BY <2>1, <1>0, <1>1, AnsweredMany
  <2> QED
    BY <2>1, <2>2, <1>1
<1>2. ASSUME EndBatch(t \o [k \in 1..(Len(calls') - i + 1) |-> i + k - 1], notes) PROVE AnswerInv'
  <2> DEFINE m == Len(calls') - i + 1
             u == t \o [k \in 1..m |-> i + k - 1]
  <2>1. m \in Nat /\ i - 1 + m = Len(calls') /\ Len(calls') \in Nat
    BY <1>0
  <2>2. Answers(u, i - 1 + m)
    BY <2>1, <1>0, AnsweredMany
  <2>3. Answers(u, Len(calls'))
    BY <2>1, <2>2
  <2>4. EndBatch(u, notes)
    BY <1>2
  <2> HIDE DEF u, m
  <2>5. Replied(u, calls', pinned')
    BY <2>1, <2>3, AnswersReplied
  <2> QED
    BY <2>4, <2>5, BatchAnswers
<1>3. ASSUME Aborted, EndBatch(t, notes) PROVE AnswerInv'
  BY <1>3 DEF EndBatch, NextRequest, Thrown, Over, Returns
<1> QED
  BY <1>1, <1>2, <1>3 DEF Proceed, Returns

LEMMA AnswerInit == Init => AnswerInv
<1>1. << >> \in Seq(Call)
  OBVIOUS
<1> QED
  BY <1>1 DEF Init, AnswerInv

LEMMA FailedAnswers ==
  ASSUME AnswerInv, pc \in {"calling", "finding"}, UNCHANGED <<calls, pinned>>, NEW notes,
         SettleFailed(calls[at], notes)
  PROVE  AnswerInv'
<1>1. at \in 1..Len(calls) /\ at \in Nat /\ Answers(tail, at - 1) /\ calls \in Seq(Call)
  BY DEF AnswerInv
<1>2. Answers(tail \o <<at>>, at)
  <2>1. at - 1 \in Nat /\ at - 1 + 1 = at
    BY <1>1
  <2> QED
    BY <2>1, <1>1, AnsweredNext
<1>3. CASE Returns("stuck")
  BY <1>3 DEF Over, Returns, AnswerInv
<1>4. ASSUME NEW n, NEW r, Proceed(tail \o <<at>>, n, r, at + 1) PROVE AnswerInv'
  <2>1. calls' \in Seq(Call) /\ pinned' \in BOOLEAN
    BY DEF AnswerInv
  <2>2. Reached(calls', tail \o <<at>>, at + 1)
    BY <1>1, <1>2, ReachedNext
  <2> QED
    BY <2>1, <2>2, <1>4, ProceedAnswers
<1> QED
  BY <1>3, <1>4 DEF SettleFailed

LEMMA CalledAnswers == ASSUME AnswerInv, NEW r, Called(r) PROVE AnswerInv'
<1>1. pc = "calling" /\ UNCHANGED <<calls, pinned>>
  BY DEF Called
<1>2. at \in 1..Len(calls) /\ at \in Nat /\ Answers(tail, at - 1) /\ calls \in Seq(Call)
  BY <1>1 DEF AnswerInv
<1>3. ASSUME pc' = "finding", UNCHANGED batch PROVE AnswerInv'
  BY <1>1, <1>2, <1>3 DEF AnswerInv, batch
<1>4. ASSUME NEW c, NEW notes, SettleOk(c, r, notes) PROVE AnswerInv'
  <2> DEFINE t == tail \o Answer(r)
  <2>1. Answers(t, at)
    <3>1. at - 1 \in Nat /\ at - 1 + 1 = at
      BY <1>2
    <3> QED
      BY <3>1, <1>2, AnsweredNext DEF Answer
  <2> HIDE DEF t
  <2>2. CASE pc' = "looking" /\ tail' = t /\ UNCHANGED at
    BY <1>1, <1>2, <2>1, <2>2 DEF AnswerInv
  <2>3. ASSUME NEW n, NEW ok, Proceed(t, n, ok, at + 1) PROVE AnswerInv'
    <3>1. calls' \in Seq(Call) /\ pinned' \in BOOLEAN
      BY <1>1 DEF AnswerInv
    <3>2. Reached(calls', t, at + 1)
      BY <1>1, <1>2, <2>1, ReachedNext
    <3> QED
      BY <3>1, <3>2, <2>3, ProceedAnswers
  <2> QED
    BY <1>4, <2>2, <2>3 DEF SettleOk, t
<1> QED
  BY <1>1, <1>3, <1>4, FailedAnswers DEF Called

LEMMA StepAnswers == AnswerInv /\ [Next]_vars => AnswerInv'
<1> SUFFICES ASSUME AnswerInv, [Next]_vars PROVE AnswerInv'
  OBVIOUS
<1>1. calls \in Seq(Call) /\ pinned \in BOOLEAN
  BY DEF AnswerInv
<1>2. CASE Prepared \/ Began \/ Reported
  BY <1>2 DEF Prepared, Began, Reported, Thrown, Over, Returns, closing, batch, AnswerInv, Replied
<1>3. CASE RouterFails \/ CallThrows
  BY <1>3 DEF RouterFails, CallThrows, Thrown, Over, Returns, closing, batch, AnswerInv
<1>4. ASSUME NEW b \in Seq(Call), Begins(b) PROVE AnswerInv'
  <2>1. calls' \in Seq(Call) /\ pinned' \in BOOLEAN /\ Len(calls') \in Nat
    BY <1>1, <1>4 DEF Begins, closing
  <2>2. Reached(calls', << >>, 1)
    BY <2>1, NoneAnswered DEF Reached
  <2> QED
    BY <1>4, <2>1, <2>2, ProceedAnswers DEF Begins
<1>5. ASSUME NEW o, Ends(o) PROVE AnswerInv'
  BY <1>1, <1>5 DEF Ends, Over, Returns, batch, closing, AnswerInv
<1>5a. ASSUME Unusable PROVE AnswerInv'
  BY <1>1, <1>5a DEF Unusable, Thrown, Over, batch, closing, AnswerInv
<1>6. ASSUME Reclassify PROVE AnswerInv'
  BY <1>1, <1>6 DEF Reclassify, batch, closing, AnswerInv
<1>7. ASSUME NextRequest, pc \in {"napping", "asking", "evidence"}, UNCHANGED <<calls, pinned>>,
             tail' = tail \/ tail' = Append(tail, 0)
      PROVE  AnswerInv'
  <2>1. Replied(tail, calls, pinned) /\ Replied(tail', calls', pinned')
    BY <1>7, NoteReplied DEF AnswerInv
  <2>2. pc' \in {"asking", "reporting", "over"}
    BY <1>7 DEF NextRequest, Thrown, Over, Returns
  <2> QED
    BY <1>1, <1>7, <2>1, <2>2 DEF AnswerInv
<1>8. ASSUME NEW kind, Nudge(kind), pc = "asking" PROVE AnswerInv'
  BY <1>7, <1>8 DEF Nudge
<1>9. ASSUME NEW text, CloseVerified(text), pc = "asking" PROVE AnswerInv'
  <2>1. ASSUME pc' = "evidence", UNCHANGED batch, UNCHANGED pinned PROVE AnswerInv'
    BY <1>1, <1>9, <2>1 DEF AnswerInv, batch
  <2>2. ASSUME Close(text) PROVE AnswerInv'
    <3>1. ASSUME NEW o, Returns(o), UNCHANGED <<step, batch, closing>> PROVE AnswerInv'
      BY <1>5, <3>1 DEF Ends
    <3> QED
      BY <1>5, <1>8, <1>9, <1>5a, <2>2, <3>1 DEF Close, Claim
  <2> QED
    BY <1>8, <1>9, <2>1, <2>2 DEF CloseVerified
<1>10. ASSUME NEW text, Replies(text) PROVE AnswerInv'
  <2>1. ASSUME NEW c \in Call, Begins(<<c>>) PROVE AnswerInv'
    <3>1. <<c>> \in Seq(Call)
      OBVIOUS
    <3> QED
      BY <1>4, <2>1, <3>1
  <2> QED
    BY <1>9, <1>10, <1>5a, <2>1 DEF Replies
<1>11. CASE Admits \/ RepliesMarkup
  BY <1>6, <1>8, <1>11 DEF Admits, RepliesMarkup
<1>12. ASSUME NEW b \in Batches, Calls(b) PROVE AnswerInv'
  BY <1>4, <1>5, <1>6, <1>12, BatchAssumption DEF Calls
<1>13. ASSUME NEW r, Called(r) PROVE AnswerInv'
  BY <1>13, CalledAnswers
<1>14. CASE Found
  BY <1>14, FailedAnswers DEF Found
<1>15. CASE Pins
  <2>1. at \in Nat /\ Answers(tail, at) /\ calls' \in Seq(Call) /\ pinned'
    BY <1>1, <1>15 DEF Pins, AnswerInv
  <2>2. Replied(tail, calls', pinned')
    BY <2>1, <1>15, AnswersReplied DEF Pins
  <2> QED
    BY <2>1, <2>2, <1>15, BatchAnswers DEF Pins
<1>16. CASE Looked
  <2>1. at \in 1..Len(calls) /\ Answers(tail, at) /\ UNCHANGED <<calls, pinned>>
    BY <1>16 DEF Looked, AnswerInv, closing
  <2>2. Reached(calls', tail, at + 1)
    BY <1>1, <2>1, ReachedNext
  <2> QED
    BY <1>1, <2>1, <2>2, <1>16, ProceedAnswers DEF Looked
<1>17. CASE Napped
  BY <1>7, <1>17 DEF Napped, closing, batch
<1>18. CASE EvidenceRead
  BY <1>7, <1>18 DEF EvidenceRead
<1>19. CASE ReRun
  <2>1. CASE Thrown /\ UNCHANGED <<batch, closing>>
    BY <1>1, <2>1 DEF Thrown, Over, Returns, closing, batch, AnswerInv
  <2>2. << >> \in Seq(Call)
    OBVIOUS
  <2>3. CASE pc' = "starting" /\ calls' = << >> /\ tail' = << >> /\ pinned' = FALSE
    BY <2>2, <2>3 DEF AnswerInv
  <2> QED
    BY <1>19, <2>1, <2>3 DEF ReRun
<1>20. ASSUME NEW why, Abort(why) PROVE AnswerInv'
  BY <1>20 DEF Abort, closing, batch, AnswerInv
<1>21. CASE UNCHANGED vars
  BY <1>21 DEF vars, closing, batch, AnswerInv
<1> QED
  BY <1>2, <1>3, <1>10, <1>11, <1>12, <1>13, <1>14, <1>15, <1>16, <1>17, <1>18, <1>19, <1>20,
     <1>21 DEF Next, LoopStep

(* When the router is asked again, every call of the last assistant message   *)
(* has been answered, in order, before anything else was said; unless the     *)
(* task was found done between two calls.                                     *)
THEOREM EveryCallIsAnswered == Spec => []CallsAnswered
<1>1. AnswerInv => CallsAnswered
  <2> SUFFICES ASSUME AnswerInv, pc = "asking"
               PROVE  Replied(tail, calls, pinned) /\ DOMAIN tail = 1..Len(tail) /\ DOMAIN calls = 1..Len(calls)
    BY Zenon DEF CallsAnswered, Replied
  <2> QED
    BY DEF AnswerInv, Replied
<1> QED
  BY <1>1, AnswerInit, StepAnswers, PTL DEF Spec
=============================================================================
