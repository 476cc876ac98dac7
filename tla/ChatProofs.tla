----------------------------- MODULE ChatProofs -----------------------------
(***************************************************************************)
(* Proofs about ChatTurns for any turns, conversations and assignment of     *)
(* turns to conversations: its types, and that no conversation stays busy    *)
(* for a turn that is over (BusyWillEnd).                                    *)
(***************************************************************************)
EXTENDS ChatTurns, SequenceTheorems, TLAPS

(* What is left of a sequence after an element is removed.                    *)
LEMMA RemoveAtProperties ==
  ASSUME NEW S, NEW s \in Seq(S), NEW i \in DOMAIN s
  PROVE  /\ RemoveAt(s, i) \in Seq(S)
         /\ Len(RemoveAt(s, i)) = Len(s) - 1
         /\ \A j \in DOMAIN RemoveAt(s, i) :
              /\ j \in 1 .. Len(s) - 1
              /\ RemoveAt(s, i)[j] = IF j < i THEN s[j] ELSE s[j + 1]
<1> DEFINE front == SubSeq(s, 1, i - 1)
           rest == SubSeq(s, i + 1, Len(s))
<1>1. Len(s) \in Nat /\ i \in 1 .. Len(s)
  BY LenProperties
<1>2. /\ front \in Seq(S) /\ Len(front) = i - 1
      /\ \A j \in 1 .. i - 1 : front[j] = s[j]
  BY <1>1, SubSeqProperties
<1>3. /\ rest \in Seq(S) /\ Len(rest) = Len(s) - i
      /\ \A j \in 1 .. Len(s) - i : rest[j] = s[j + i]
  BY <1>1, SubSeqProperties
<1>4. RemoveAt(s, i) = front \o rest
  BY DEF RemoveAt
<1> HIDE DEF front, rest
<1>5. /\ front \o rest \in Seq(S)
      /\ Len(front \o rest) = Len(front) + Len(rest)
      /\ \A j \in 1 .. Len(front) + Len(rest) : (front \o rest)[j] =
           IF j <= Len(front) THEN front[j] ELSE rest[j - Len(front)]
  BY <1>2, <1>3, ConcatProperties
<1>6. Len(front) + Len(rest) = Len(s) - 1
  BY <1>1, <1>2, <1>3
<1>7. /\ RemoveAt(s, i) \in Seq(S)
      /\ Len(RemoveAt(s, i)) = Len(s) - 1
      /\ \A j \in 1 .. Len(s) - 1 : RemoveAt(s, i)[j] =
           IF j <= i - 1 THEN front[j] ELSE rest[j - (i - 1)]
  BY <1>2, <1>4, <1>5, <1>6
<1>8. DOMAIN RemoveAt(s, i) = 1 .. Len(s) - 1
  BY <1>7, LenProperties
<1>9. ASSUME NEW j \in 1 .. Len(s) - 1
      PROVE  RemoveAt(s, i)[j] = IF j < i THEN s[j] ELSE s[j + 1]
  <2>1. CASE j < i
    BY <1>1, <1>2, <1>7, <2>1
  <2>2. CASE ~(j < i)
    <3>1. j - (i - 1) \in 1 .. Len(s) - i /\ j - (i - 1) + i = j + 1
      BY <1>1, <2>2
    <3>2. rest[j - (i - 1)] = s[j + 1]
      BY <1>3, <3>1
    <3> QED
      BY <1>1, <1>7, <2>2, <3>2
  <2> QED
    BY <2>1, <2>2
<1> QED
  BY <1>7, <1>8, <1>9

(* Removing an element of an injective sequence removes it altogether.        *)
LEMMA RemoveAtInjective ==
  ASSUME NEW S, NEW s \in Seq(S), NEW i \in DOMAIN s, IsInjective(s)
  PROVE  /\ IsInjective(RemoveAt(s, i))
         /\ Range(RemoveAt(s, i)) \subseteq Range(s)
         /\ s[i] \notin Range(RemoveAt(s, i))
<1>1. Len(s) \in Nat /\ DOMAIN s = 1 .. Len(s) /\ i \in 1 .. Len(s)
  BY LenProperties
<1>2. \A j \in DOMAIN RemoveAt(s, i) :
        /\ j \in 1 .. Len(s) - 1
        /\ RemoveAt(s, i)[j] = IF j < i THEN s[j] ELSE s[j + 1]
  BY RemoveAtProperties
<1> QED
  BY <1>1, <1>2 DEF IsInjective, Range

(* Noting a turn keeps turnConversationIds a sequence of distinct turns.      *)
LEMMA NotedProperties ==
  ASSUME NEW ids \in Seq(Turn), IsInjective(ids), NEW t \in Turn \cup {NoTurn}
  PROVE  Noted(ids, t) \in Seq(Turn) /\ IsInjective(Noted(ids, t))
<1>1. CASE t = NoTurn \/ Contains(ids, t)
  BY <1>1 DEF Noted
<1>2. CASE t # NoTurn /\ ~Contains(ids, t)
  <2>1. Noted(ids, t) = Append(ids, t) /\ t \in Turn
    BY <1>2 DEF Noted
  <2>2. Len(ids) \in Nat /\ DOMAIN ids = 1 .. Len(ids)
    BY LenProperties
  <2>3. /\ Append(ids, t) \in Seq(Turn)
        /\ DOMAIN Append(ids, t) = 1 .. Len(ids) + 1
        /\ \A i \in 1 .. Len(ids) : Append(ids, t)[i] = ids[i]
        /\ Append(ids, t)[Len(ids) + 1] = t
    BY <2>1, <2>2, AppendProperties, LenProperties
  <2>4. \A i \in 1 .. Len(ids) : ids[i] # t
    BY <1>2 DEF Contains
  <2> QED
    BY <2>1, <2>2, <2>3, <2>4 DEF IsInjective
<1> QED
  BY <1>1, <1>2

LEMMA ForgottenProperties ==
  ASSUME NEW ids \in Seq(Turn), IsInjective(ids), NEW t
  PROVE  Forgotten(ids, t) \in Seq(Turn) /\ IsInjective(Forgotten(ids, t))
<1>1. CASE Contains(ids, t)
  <2>1. \E i \in DOMAIN ids : ids[i] = t
    BY <1>1, LenProperties DEF Contains
  <2>2. PICK i \in DOMAIN ids : Forgotten(ids, t) = RemoveAt(ids, i)
    BY <1>1, <2>1 DEF Forgotten
  <2> QED
    BY <2>2, RemoveAtProperties, RemoveAtInjective
<1>2. CASE ~Contains(ids, t)
  BY <1>2 DEF Forgotten
<1> QED
  BY <1>1, <1>2

(* A message more on its way.                                                 *)
LEMMA Appended ==
  ASSUME NEW S, NEW s \in Seq(S), NEW e \in S
  PROVE  /\ Append(s, e) \in Seq(S)
         /\ Range(Append(s, e)) = Range(s) \cup {e}
         /\ DOMAIN Append(s, e) = 1 .. Len(s) + 1
         /\ \A i \in DOMAIN s : Append(s, e)[i] = s[i]
         /\ Append(s, e)[Len(s) + 1] = e
         /\ DOMAIN s = 1 .. Len(s) /\ Len(s) \in Nat
<1>1. DOMAIN s = 1 .. Len(s) /\ Len(s) \in Nat
  BY LenProperties
<1>2. /\ Append(s, e) \in Seq(S)
      /\ DOMAIN Append(s, e) = 1 .. Len(s) + 1
      /\ \A i \in 1 .. Len(s) : Append(s, e)[i] = s[i]
      /\ Append(s, e)[Len(s) + 1] = e
  BY <1>1, AppendProperties, LenProperties
<1> QED
  BY <1>1, <1>2 DEF Range

(* The message at the head is taken, and what remains of the same turn comes  *)
(* later in its life.                                                         *)
LEMMA Delivered ==
  ASSUME TypeOK, InOrder, NEW kind, NEW t, Takes(kind, t)
  PROVE  /\ <<kind, t>> \in Message
         /\ inbox' \in Seq(Message)
         /\ InOrder'
         /\ Range(inbox) = Range(inbox') \cup {<<kind, t>>}
         /\ \A m \in Range(inbox') : m[2] = t =>
              /\ kind \in {"started", "reply"} /\ m[1] # "started"
              /\ kind = "reply" => m[1] = "terminal"
<1>1. inbox \in Seq(Message) /\ inbox # <<>> /\ inbox' = Tail(inbox) /\ Head(inbox) = <<kind, t>>
  BY DEF TypeOK, Takes
<1>2. Len(inbox) \in Nat /\ Len(inbox) # 0 /\ DOMAIN inbox = 1 .. Len(inbox)
  BY <1>1, LenProperties, EmptySeq
<1>3. /\ inbox' \in Seq(Message)
      /\ DOMAIN inbox' = 1 .. Len(inbox) - 1
      /\ \A i \in 1 .. Len(inbox) - 1 : inbox'[i] = inbox[i + 1]
  BY <1>1, <1>2, HeadTailProperties, LenProperties
<1>4. 1 \in DOMAIN inbox /\ inbox[1] = <<kind, t>> /\ inbox[1] \in Message
  BY <1>1, <1>2, ElementOfSeq
<1>5. InOrder'
  <2> SUFFICES ASSUME NEW i \in DOMAIN inbox', NEW j \in DOMAIN inbox',
                      i < j, inbox'[i][2] = inbox'[j][2]
               PROVE  /\ inbox'[i][1] \in {"started", "reply"} /\ inbox'[j][1] # "started"
                      /\ inbox'[i][1] = "reply" => inbox'[j][1] = "terminal"
    BY DEF InOrder, Ordered
  <2>1. /\ i + 1 \in DOMAIN inbox /\ j + 1 \in DOMAIN inbox /\ i + 1 < j + 1
        /\ inbox'[i] = inbox[i + 1] /\ inbox'[j] = inbox[j + 1]
    BY <1>2, <1>3
  <2> QED
    BY <2>1 DEF InOrder, Ordered
<1>6. Range(inbox) = Range(inbox') \cup {<<kind, t>>}
  <2>1. \A i \in DOMAIN inbox : i = 1 \/ (i - 1 \in DOMAIN inbox' /\ inbox[i] = inbox'[i - 1])
    BY <1>2, <1>3
  <2>2. \A i \in DOMAIN inbox' : i + 1 \in DOMAIN inbox /\ inbox'[i] = inbox[i + 1]
    BY <1>2, <1>3
  <2> QED
    BY <1>4, <2>1, <2>2 DEF Range
<1>7. ASSUME NEW m \in Range(inbox'), m[2] = t
      PROVE  /\ kind \in {"started", "reply"} /\ m[1] # "started"
             /\ kind = "reply" => m[1] = "terminal"
  <2>1. PICK i \in DOMAIN inbox' : m = inbox'[i]
    BY <1>7 DEF Range
  <2>2. i + 1 \in DOMAIN inbox /\ 1 < i + 1 /\ m = inbox[i + 1]
    BY <1>2, <1>3, <2>1
  <2> QED
    BY <1>4, <1>7, <2>2 DEF InOrder, Ordered
<1> QED
  BY <1>1, <1>3, <1>4, <1>5, <1>6, <1>7

-----------------------------------------------------------------------------
(* A message sent, queued, run from the queue or prepared.                    *)

LEMMA InitInv == Init => LifeInv
<1> SUFFICES ASSUME Init PROVE LifeInv
  OBVIOUS
<1>1. TypeOK
  BY NoTurnAssumption, EmptySeq DEF Init, TypeOK, IsInjective
<1>2. Range(inbox) = {} /\ Range(queue) = {}
  BY DEF Init, Range
<1> QED
  BY <1>1, <1>2 DEF Init, LifeInv, InOrder, Ordered, Stage, StageInv, QueueInv, OwnInv, BusyWillEnd, IsInjective, Live

(* runTurn leaves the types in order and the conversation to its turn.        *)
LEMMA RunTurnTypes ==
  ASSUME LifeInv, NEW t \in Turn, RunTurn(t)
  PROVE  /\ known' \in Seq(Turn) /\ IsInjective(known')
         /\ at' = [at EXCEPT ![t] = "preparing"]
         /\ running' = [running EXCEPT ![Of[t]] = t]
         /\ Of[t] \in Conversation
BY NotedProperties, OfAssumption DEF LifeInv, TypeOK, RunTurn, MarkStarted

LEMMA SendInv == ASSUME LifeInv, NEW t \in Turn, SendMessage(t) PROVE LifeInv'
<1>1. /\ at[t] = "new" /\ work' = work /\ mapped' = mapped /\ inbox' = inbox
      /\ deferred' = deferred /\ target' = target /\ resolved' = resolved
      /\ summarising' = summarising /\ answer' = answer
  BY DEF SendMessage, interjection, backend
<1>2. CASE running[Of[t]] # NoTurn
  <2>1. /\ queue' = Append(queue, t) /\ at' = [at EXCEPT ![t] = "queued"]
        /\ running' = running /\ known' = known /\ lock' = lock
    BY <1>2 DEF SendMessage
  <2>2. t \notin Range(queue)
    BY <1>1 DEF LifeInv, QueueInv
  <2>3. queue \in Seq(Turn)
    BY DEF LifeInv, TypeOK
  <2>4. TypeOK'
    BY <1>1, <2>1, <2>3, Appended DEF LifeInv, TypeOK
  <2>5. QueueInv'
    <3>1. \A i \in DOMAIN queue : queue[i] # t
      BY <2>2 DEF Range
    <3>2. IsInjective(queue')
      BY <2>1, <2>3, <3>1, Appended DEF LifeInv, QueueInv, IsInjective
    <3>3. \A u \in Range(queue') : at'[u] = "queued"
      BY <2>1, <2>2, <2>3, Appended DEF LifeInv, TypeOK, QueueInv
    <3> QED
      BY <3>2, <3>3 DEF QueueInv
  <2>6. InOrder' /\ OwnInv'
    BY <1>1, <2>1 DEF LifeInv, InOrder, OwnInv
  <2>7. StageInv' /\ BusyWillEnd'
    BY <1>1, <2>1 DEF LifeInv, TypeOK, StageInv, Stage, OwnInv, BusyWillEnd, Live
  <2> QED
    BY <2>4, <2>5, <2>6, <2>7 DEF LifeInv
<1>3. CASE running[Of[t]] = NoTurn
  <2>1. RunTurn(t) /\ lock' = t /\ queue' = queue
    BY <1>3 DEF SendMessage
  <2>2. /\ known' \in Seq(Turn) /\ IsInjective(known')
        /\ at' = [at EXCEPT ![t] = "preparing"]
        /\ running' = [running EXCEPT ![Of[t]] = t]
        /\ Of[t] \in Conversation
    BY <2>1, RunTurnTypes
  <2>3. TypeOK'
    BY <1>1, <2>1, <2>2 DEF LifeInv, TypeOK
  <2>4. InOrder' /\ QueueInv' /\ OwnInv'
    BY <1>1, <2>1, <2>2 DEF LifeInv, TypeOK, InOrder, QueueInv, OwnInv
  <2>5. StageInv' /\ BusyWillEnd'
    BY <1>1, <2>2 DEF LifeInv, TypeOK, StageInv, Stage, OwnInv, BusyWillEnd, Live
  <2> QED
    BY <2>3, <2>4, <2>5 DEF LifeInv
<1> QED
  BY <1>2, <1>3

LEMMA FlushInv == ASSUME LifeInv, FlushQueued PROVE LifeInv'
<1>1. PICK i \in DOMAIN queue :
        /\ RunTurn(queue[i]) /\ queue' = RemoveAt(queue, i)
        /\ UNCHANGED <<lock, interjection, summarising, backend, answer, inbox>>
  BY DEF FlushQueued
<1> DEFINE t == queue[i]
<1>2. queue \in Seq(Turn) /\ IsInjective(queue) /\ t \in Range(queue)
  BY DEF LifeInv, TypeOK, QueueInv, Range
<1>3. t \in Turn /\ at[t] = "queued"
  BY <1>2, LenProperties, ElementOfSeq DEF LifeInv, QueueInv
<1>4. /\ queue' \in Seq(Turn) /\ IsInjective(queue')
      /\ Range(queue') \subseteq Range(queue) /\ t \notin Range(queue')
  BY <1>1, <1>2, RemoveAtProperties, RemoveAtInjective
<1>5. /\ known' \in Seq(Turn) /\ IsInjective(known')
      /\ at' = [at EXCEPT ![t] = "preparing"]
      /\ running' = [running EXCEPT ![Of[t]] = t]
      /\ Of[t] \in Conversation
  BY <1>1, <1>3, RunTurnTypes
<1> HIDE DEF t
<1> USE DEF interjection, backend
<1>6. TypeOK'
  BY <1>1, <1>3, <1>4, <1>5 DEF LifeInv, TypeOK
<1>7. InOrder' /\ QueueInv' /\ OwnInv'
  BY <1>1, <1>3, <1>4, <1>5 DEF LifeInv, TypeOK, InOrder, QueueInv, OwnInv
<1>8. StageInv' /\ BusyWillEnd'
  BY <1>1, <1>3, <1>5 DEF LifeInv, TypeOK, StageInv, Stage, OwnInv, BusyWillEnd, Live
<1> QED
  BY <1>6, <1>7, <1>8 DEF LifeInv

LEMMA PrepareInv == ASSUME LifeInv, NEW t \in Turn, Prepare(t) PROVE LifeInv'
<1> USE DEF Prepare, interjection, backend
<1>1. TypeOK' /\ InOrder' /\ QueueInv' /\ OwnInv'
  BY DEF LifeInv, TypeOK, InOrder, QueueInv, OwnInv
<1>2. StageInv' /\ BusyWillEnd'
  BY DEF LifeInv, TypeOK, StageInv, Stage, OwnInv, BusyWillEnd, Live
<1> QED
  BY <1>1, <1>2 DEF LifeInv

-----------------------------------------------------------------------------
(* The backend.                                                               *)

(* A message may follow those of its turn that come earlier in its life.      *)
LEMMA AppendOrdered ==
  ASSUME NEW box \in Seq(Message), Ordered(box), NEW m \in Message,
         \A n \in Range(box) : n[2] = m[2] =>
           /\ n[1] \in {"started", "reply"} /\ m[1] # "started"
           /\ n[1] = "reply" => m[1] = "terminal"
  PROVE  Ordered(Append(box, m))
<1>1. /\ DOMAIN Append(box, m) = 1 .. Len(box) + 1 /\ DOMAIN box = 1 .. Len(box)
      /\ \A i \in DOMAIN box : Append(box, m)[i] = box[i] /\ box[i] \in Range(box)
      /\ Append(box, m)[Len(box) + 1] = m /\ Len(box) \in Nat
  BY Appended DEF Range
<1> QED
  BY <1>1 DEF Ordered

LEMMA BecomesInv == ASSUME LifeInv, NEW t \in Turn, BecomesInterruptible(t) PROVE LifeInv'
<1> USE DEF BecomesInterruptible, chat, interjection
<1>1. TypeOK' /\ InOrder' /\ QueueInv' /\ OwnInv'
  BY DEF LifeInv, TypeOK, InOrder, QueueInv, OwnInv
<1>2. StageInv' /\ BusyWillEnd'
  BY DEF LifeInv, TypeOK, StageInv, Stage, OwnInv, BusyWillEnd, Live
<1> QED
  BY <1>1, <1>2 DEF LifeInv

LEMMA InterruptInv == ASSUME LifeInv, NEW t \in Turn, Interrupt(t) PROVE LifeInv'
<1> USE DEF Interrupt, chat, interjection, backend
<1>1. TypeOK' /\ InOrder' /\ QueueInv' /\ OwnInv'
  BY DEF LifeInv, TypeOK, InOrder, QueueInv, OwnInv
<1>2. StageInv' /\ BusyWillEnd'
  BY DEF LifeInv, TypeOK, StageInv, Stage, OwnInv, BusyWillEnd, Live
<1> QED
  BY <1>1, <1>2 DEF LifeInv

LEMMA TurnEndsInv == ASSUME LifeInv, NEW t \in Turn, TurnEnds(t) PROVE LifeInv'
<1> DEFINE m == <<"terminal", t>>
<1>1. m \in Message /\ inbox \in Seq(Message) /\ inbox' = Append(inbox, m) /\ Live(t)
  BY DEF LifeInv, TypeOK, TurnEnds, Message
<1>2. Range(inbox') = Range(inbox) \cup {m} /\ inbox' \in Seq(Message)
  BY <1>1, Appended
<1>3. Range(inbox) \subseteq Message
  BY <1>1, ElementOfSeq, LenProperties DEF Range
<1>4. \A n \in Range(inbox) : n[2] = t => n[1] \in {"started", "reply"}
  <2>1. \A n \in Message : n = <<n[1], n[2]>> /\ n[1] \in {"started", "reply", "refused", "terminal"}
    BY DEF Message
  <2>2. <<"refused", t>> \notin Range(inbox) /\ <<"terminal", t>> \notin Range(inbox)
    BY <1>1 DEF LifeInv, StageInv, Stage
  <2> QED
    BY <1>3, <2>1, <2>2
<1>5. InOrder'
  BY <1>1, <1>4, AppendOrdered DEF LifeInv, InOrder
<1>6. TypeOK' /\ QueueInv' /\ OwnInv'
  BY <1>2, OfAssumption DEF LifeInv, TypeOK, QueueInv, OwnInv, TurnEnds, chat, interjection
<1>7. /\ at' = at /\ running' = running
      /\ work \in [Turn -> {"none", "starting", "running", "over"}]
      /\ work' = [work EXCEPT ![t] = "over"]
  BY DEF LifeInv, TypeOK, TurnEnds, chat
<1>8. StageInv'
  <2> SUFFICES ASSUME NEW u \in Turn PROVE Stage(u)'
    BY DEF StageInv
  <2>1. Stage(u)
    BY DEF LifeInv, StageInv
  <2>2. CASE u = t
    <3>1. m[1] = "terminal" /\ m[2] = t
      OBVIOUS
    <3>2. work'[t] = "over" /\ at[t] \in {"asking", "sent"}
      BY <1>1, <1>7, <2>1, <2>2 DEF LifeInv, TypeOK, Stage, Live
    <3>3. at[t] = "sent" => \A n \in Range(inbox') : n[2] = t => n[1] = "terminal"
      BY <1>2, <2>1, <2>2, <3>1 DEF Stage
    <3> QED
      BY <1>1, <1>2, <1>7, <2>1, <2>2, <3>2, <3>3 DEF Stage, Live
  <2>3. CASE u # t
    BY <1>2, <1>7, <2>1, <2>3 DEF Stage, Live
  <2> QED
    BY <2>2, <2>3
<1>9. BusyWillEnd'
  BY <1>2, <1>7 DEF LifeInv, TypeOK, BusyWillEnd, Live
<1> QED
  BY <1>5, <1>6, <1>8, <1>9 DEF LifeInv

(* The stage of a turn depends on its own state and messages only.            *)
LEMMA StageFrame ==
  ASSUME NEW u, Stage(u), at'[u] = at[u], work'[u] = work[u],
         \A m : m[2] = u => (m \in Range(inbox') <=> m \in Range(inbox))
  PROVE  Stage(u)'
<1>1. \A kind : <<kind, u>>[2] = u
  OBVIOUS
<1> QED
  BY <1>1 DEF Stage, Live

LEMMA AcceptInv == ASSUME LifeInv, NEW t \in Turn, Accept(t) PROVE LifeInv'
<1> DEFINE s == <<"started", t>>
           r == <<"reply", t>>
           mid == Append(inbox, s)
<1>1. /\ s \in Message /\ r \in Message /\ inbox \in Seq(Message)
      /\ s[1] = "started" /\ s[2] = t /\ r[1] = "reply" /\ r[2] = t
  BY DEF LifeInv, TypeOK, Message
<1>2. /\ at[t] = "asking" /\ work[t] = "none" /\ inbox' = Append(mid, r)
      /\ work' = [work EXCEPT ![t] = "starting"] /\ mapped' = [mapped EXCEPT ![Of[t]] = t]
      /\ UNCHANGED <<at, queue, running, known, lock, deferred, target, resolved, summarising, answer>>
  BY DEF Accept, chat, interjection
<1>3. mid \in Seq(Message) /\ Range(mid) = Range(inbox) \cup {s}
  BY <1>1, Appended
<1>4. inbox' \in Seq(Message) /\ Range(inbox') = Range(inbox) \cup {s, r}
  <2> HIDE DEF s, r, mid
  <2>1. inbox' \in Seq(Message) /\ Range(inbox') = Range(mid) \cup {r}
    BY <1>1, <1>2, <1>3, Appended
  <2> QED
    BY <1>3, <2>1
<1>5. \A n \in Range(inbox) : n[2] # t
  BY <1>2 DEF LifeInv, StageInv, Stage
<1>6. InOrder'
  <2> HIDE DEF s, r
  <2>1. Ordered(mid)
    BY <1>1, <1>5, AppendOrdered DEF LifeInv, InOrder
  <2>2. \A n \in Range(mid) : n[2] = t => n = s
    BY <1>3, <1>5
  <2> HIDE DEF mid
  <2> QED
    BY <1>1, <1>2, <1>3, <2>1, <2>2, AppendOrdered DEF InOrder
<1> HIDE DEF s, r, mid
<1>7. TypeOK' /\ QueueInv' /\ OwnInv'
  BY <1>2, <1>4, OfAssumption DEF LifeInv, TypeOK, QueueInv, OwnInv
<1>8. StageInv'
  <2> SUFFICES ASSUME NEW u \in Turn PROVE Stage(u)'
    BY DEF StageInv
  <2>1. CASE u = t
    <3>1. at'[t] = "asking" /\ work'[t] = "starting" /\ r \in Range(inbox')
      BY <1>2, <1>4 DEF LifeInv, TypeOK
    <3>2. <<"refused", t>> \notin Range(inbox') /\ <<"terminal", t>> \notin Range(inbox')
      BY <1>4, <1>5 DEF s, r
    <3> QED
      BY <2>1, <3>1, <3>2 DEF Stage, Live, r
  <2>2. CASE u # t
    <3>1. at'[u] = at[u] /\ work'[u] = work[u]
      BY <1>2, <2>2 DEF LifeInv, TypeOK
    <3>2. \A m : m[2] = u => (m \in Range(inbox') <=> m \in Range(inbox))
      BY <1>1, <1>4, <2>2
    <3> QED
      BY <3>1, <3>2, StageFrame DEF LifeInv, StageInv
  <2> QED
    BY <2>1, <2>2
<1>9. BusyWillEnd'
  BY <1>2, <1>4 DEF LifeInv, TypeOK, BusyWillEnd, Live
<1> QED
  BY <1>6, <1>7, <1>8, <1>9 DEF LifeInv

LEMMA RefuseInv == ASSUME LifeInv, NEW t \in Turn, Refuse(t) PROVE LifeInv'
<1> DEFINE s == <<"started", t>>
           r == <<"refused", t>>
<1>1. /\ s \in Message /\ r \in Message /\ inbox \in Seq(Message)
      /\ s[1] = "started" /\ s[2] = t /\ r[1] = "refused" /\ r[2] = t
  BY DEF LifeInv, TypeOK, Message
<1>2. /\ at[t] = "asking" /\ work[t] = "none" /\ work' = [work EXCEPT ![t] = "over"]
      /\ UNCHANGED <<at, queue, running, known, lock, deferred, target, resolved, summarising, mapped, answer>>
  BY DEF Refuse, chat, interjection
<1>3. PICK before \in {inbox, Append(inbox, s)} : inbox' = Append(before, r)
  BY DEF Refuse
<1>4. /\ before \in Seq(Message)
      /\ Range(inbox) \subseteq Range(before) /\ Range(before) \subseteq Range(inbox) \cup {s}
  <2>1. Append(inbox, s) \in Seq(Message) /\ Range(Append(inbox, s)) = Range(inbox) \cup {s}
    BY <1>1, Appended
  <2> QED
    BY <1>1, <1>3, <2>1
<1>5. inbox' \in Seq(Message) /\ Range(inbox') = Range(before) \cup {r}
  BY <1>1, <1>3, <1>4, Appended
<1>6. \A n \in Range(inbox) : n[2] # t
  BY <1>2 DEF LifeInv, StageInv, Stage
<1>7. InOrder'
  <2> HIDE DEF s, r
  <2>1. Ordered(before)
    <3>1. Ordered(inbox)
      BY DEF LifeInv, InOrder
    <3>2. Ordered(Append(inbox, s))
      BY <1>1, <1>6, <3>1, AppendOrdered
    <3> QED
      BY <1>3, <3>1, <3>2
  <2>2. \A n \in Range(before) : n[2] = t => n = s
    BY <1>4, <1>6
  <2> QED
    BY <1>1, <1>3, <1>4, <2>1, <2>2, AppendOrdered DEF InOrder
<1> HIDE DEF s, r
<1>8. TypeOK' /\ QueueInv' /\ OwnInv'
  BY <1>2, <1>5 DEF LifeInv, TypeOK, QueueInv, OwnInv
<1>9. StageInv'
  <2> SUFFICES ASSUME NEW u \in Turn PROVE Stage(u)'
    BY DEF StageInv
  <2>1. CASE u = t
    <3>1. at'[t] = "asking" /\ work'[t] = "over" /\ r \in Range(inbox')
      BY <1>2, <1>5 DEF LifeInv, TypeOK
    <3>2. <<"reply", t>> \notin Range(inbox')
      BY <1>4, <1>5, <1>6 DEF s, r
    <3> QED
      BY <2>1, <3>1, <3>2 DEF Stage, Live, r
  <2>2. CASE u # t
    <3>1. at'[u] = at[u] /\ work'[u] = work[u]
      BY <1>2, <2>2 DEF LifeInv, TypeOK
    <3>2. \A m : m[2] = u => (m \in Range(inbox') <=> m \in Range(inbox))
      BY <1>1, <1>4, <1>5, <2>2
    <3> QED
      BY <3>1, <3>2, StageFrame DEF LifeInv, StageInv
  <2> QED
    BY <2>1, <2>2
<1>10. BusyWillEnd'
  BY <1>2, <1>4, <1>5 DEF LifeInv, TypeOK, BusyWillEnd, Live
<1> QED
  BY <1>7, <1>8, <1>9, <1>10 DEF LifeInv

-----------------------------------------------------------------------------
(* Interjecting.                                                              *)

LEMMA InterjectInv == ASSUME LifeInv, NEW t \in Turn, Interject(t) PROVE LifeInv'
<1>1. PICK i \in DOMAIN queue : queue[i] = t /\ queue' = RemoveAt(queue, i)
  BY DEF Interject
<1>2. queue \in Seq(Turn) /\ IsInjective(queue) /\ t \in Range(queue) /\ at[t] = "queued"
  BY <1>1 DEF LifeInv, TypeOK, QueueInv, Range
<1>3. /\ queue' \in Seq(Turn) /\ IsInjective(queue')
      /\ Range(queue') \subseteq Range(queue) /\ t \notin Range(queue')
  BY <1>1, <1>2, RemoveAtProperties, RemoveAtInjective
<1>4. UNCHANGED <<lock, summarising, work, mapped, answer, inbox>>
  BY DEF Interject, backend
<1>5. CASE RunTurn(t) /\ UNCHANGED interjection
  <2>1. /\ known' \in Seq(Turn) /\ IsInjective(known')
        /\ at' = [at EXCEPT ![t] = "preparing"]
        /\ running' = [running EXCEPT ![Of[t]] = t]
        /\ Of[t] \in Conversation
    BY <1>5, RunTurnTypes
  <2>2. UNCHANGED <<deferred, target, resolved>>
    BY <1>5 DEF interjection
  <2>3. TypeOK'
    BY <1>3, <1>4, <2>1, <2>2 DEF LifeInv, TypeOK
  <2>4. InOrder' /\ QueueInv' /\ OwnInv'
    BY <1>3, <1>4, <2>1, <2>2 DEF LifeInv, TypeOK, InOrder, QueueInv, OwnInv
  <2>5. StageInv' /\ BusyWillEnd'
    BY <1>2, <1>4, <2>1 DEF LifeInv, TypeOK, StageInv, Stage, OwnInv, BusyWillEnd, Live
  <2> QED
    BY <2>3, <2>4, <2>5 DEF LifeInv
<1>6. CASE /\ \E k \in DOMAIN known :
                CurrentTurn(k, Of[t]) /\ target' = [target EXCEPT ![t] = known[k]]
           /\ deferred' = t
           /\ at' = [at EXCEPT ![t] = "interrupting"]
           /\ UNCHANGED <<running, known, resolved>>
  <2>1. PICK k \in DOMAIN known :
          Of[known[k]] = Of[t] /\ target' = [target EXCEPT ![t] = known[k]]
    BY <1>6 DEF CurrentTurn
  <2>2. known[k] \in Turn
    BY LenProperties, ElementOfSeq DEF LifeInv, TypeOK
  <2>3. TypeOK'
    BY <1>3, <1>4, <1>6, <2>1, <2>2 DEF LifeInv, TypeOK
  <2>4. InOrder' /\ QueueInv' /\ OwnInv'
    BY <1>2, <1>3, <1>4, <1>6, <2>1, <2>2 DEF LifeInv, TypeOK, InOrder, QueueInv, OwnInv
  <2>5. StageInv' /\ BusyWillEnd'
    BY <1>2, <1>4, <1>6 DEF LifeInv, TypeOK, StageInv, Stage, OwnInv, BusyWillEnd, Live
  <2> QED
    BY <2>3, <2>4, <2>5 DEF LifeInv
<1> QED
  BY <1>5, <1>6 DEF Interject, CurrentTurn

LEMMA AnsweredInv == ASSUME LifeInv, NEW t \in Turn, InterruptAnswered(t) PROVE LifeInv'
<1>1. /\ at[t] = "interrupting" /\ deferred' \in Turn \cup {NoTurn} /\ resolved' \subseteq Turn
      /\ UNCHANGED <<queue, lock, target, summarising, work, mapped, answer, inbox>>
  BY DEF InterruptAnswered, LifeInv, TypeOK, backend
<1>2. CASE RunTurn(t)
  <2>1. /\ known' \in Seq(Turn) /\ IsInjective(known')
        /\ at' = [at EXCEPT ![t] = "preparing"]
        /\ running' = [running EXCEPT ![Of[t]] = t]
        /\ Of[t] \in Conversation
    BY <1>2, RunTurnTypes
  <2>2. TypeOK'
    BY <1>1, <2>1 DEF LifeInv, TypeOK
  <2>3. InOrder' /\ QueueInv' /\ OwnInv'
    BY <1>1, <2>1 DEF LifeInv, TypeOK, InOrder, QueueInv, OwnInv
  <2>4. StageInv' /\ BusyWillEnd'
    BY <1>1, <2>1 DEF LifeInv, TypeOK, StageInv, Stage, OwnInv, BusyWillEnd, Live
  <2> QED
    BY <2>2, <2>3, <2>4 DEF LifeInv
<1>3. CASE at' = [at EXCEPT ![t] = "waiting"] /\ UNCHANGED <<running, known>>
  <2>1. TypeOK' /\ InOrder' /\ QueueInv' /\ OwnInv'
    BY <1>1, <1>3 DEF LifeInv, TypeOK, InOrder, QueueInv, OwnInv
  <2>2. StageInv' /\ BusyWillEnd'
    BY <1>1, <1>3 DEF LifeInv, TypeOK, StageInv, Stage, OwnInv, BusyWillEnd, Live
  <2> QED
    BY <2>1, <2>2 DEF LifeInv
<1> QED
  BY <1>2, <1>3 DEF InterruptAnswered

-----------------------------------------------------------------------------
(* Replies and events.                                                        *)

(* Taking a message leaves the stage of the other turns as it is.             *)
LEMMA DeliveredFrame ==
  ASSUME LifeInv, NEW kind, NEW t, Takes(kind, t), NEW u \in Turn, u # t,
         work'[u] = work[u],
         \/ at'[u] = at[u]
         \/ at[u] \in {"new", "waiting"} /\ at'[u] = "preparing"
  PROVE  Stage(u)'
<1>1. Range(inbox) = Range(inbox') \cup {<<kind, t>>}
  BY Delivered DEF LifeInv
<1>2. \A m : m[2] = u => (m \in Range(inbox') <=> m \in Range(inbox))
  BY <1>1
<1>3. Stage(u)
  BY DEF LifeInv, StageInv
<1>4. CASE at'[u] = at[u]
  BY <1>2, <1>3, <1>4, StageFrame
<1>5. CASE at[u] \in {"new", "waiting"} /\ at'[u] = "preparing"
  <2>1. \A k : <<k, u>>[2] = u
    OBVIOUS
  <2> QED
    BY <1>2, <1>3, <1>5, <2>1 DEF Stage, Live
<1> QED
  BY <1>4, <1>5

(* Who occupies a conversation and is not concerned goes on occupying it.     *)
LEMMA DeliveredBusy ==
  ASSUME LifeInv, NEW kind, NEW t, Takes(kind, t), UNCHANGED work,
         NEW c \in Conversation, NEW u, running[c] = u, u # NoTurn, u # t,
         at'[u] = at[u] \/ at'[u] = "preparing"
  PROVE  \/ at'[u] \in {"preparing", "asking"} \/ Live(u)'
         \/ <<"terminal", u>> \in Range(inbox') \/ <<"refused", u>> \in Range(inbox')
<1>1. Range(inbox) = Range(inbox') \cup {<<kind, t>>}
  BY Delivered DEF LifeInv
<1>2. \/ at[u] \in {"preparing", "asking"} \/ Live(u)
      \/ <<"terminal", u>> \in Range(inbox) \/ <<"refused", u>> \in Range(inbox)
  BY DEF LifeInv, BusyWillEnd
<1> QED
  BY <1>1, <1>2 DEF Live

LEMMA SummarisedInv == ASSUME LifeInv, NEW t \in Turn, Summarised(t) PROVE LifeInv'
<1> USE DEF Summarised, interjection, backend
<1>1. known' \in Seq(Turn) /\ IsInjective(known')
  BY ForgottenProperties DEF LifeInv, TypeOK
<1>2. TypeOK' /\ InOrder' /\ QueueInv' /\ OwnInv'
  BY <1>1 DEF LifeInv, TypeOK, InOrder, QueueInv, OwnInv
<1>3. StageInv' /\ BusyWillEnd'
  BY DEF LifeInv, TypeOK, StageInv, Stage, OwnInv, BusyWillEnd, Live
<1> QED
  BY <1>2, <1>3 DEF LifeInv

LEMMA StartedInv == ASSUME LifeInv, NEW t \in Turn, OnStarted(t) PROVE LifeInv'
<1>1. /\ Takes("started", t) /\ running' = [running EXCEPT ![Of[t]] = t] /\ known' = Noted(known, t)
      /\ UNCHANGED <<at, queue, lock, deferred, target, resolved, summarising, work, mapped, answer>>
  BY DEF OnStarted, MarkStarted, interjection, backend
<1>2. /\ inbox' \in Seq(Message) /\ InOrder'
      /\ Range(inbox) = Range(inbox') \cup {<<"started", t>>}
  BY <1>1, Delivered DEF LifeInv
<1>3. known' \in Seq(Turn) /\ IsInjective(known')
  BY <1>1, NotedProperties DEF LifeInv, TypeOK
<1>4. TypeOK' /\ QueueInv' /\ OwnInv'
  BY <1>1, <1>2, <1>3, OfAssumption DEF LifeInv, TypeOK, QueueInv, OwnInv
<1>5. Stage(t) /\ <<"started", t>>[1] = "started" /\ <<"started", t>>[2] = t
  BY DEF LifeInv, StageInv
<1>6. at[t] = "asking" /\ work[t] # "none"
  BY <1>2, <1>5 DEF Stage, LifeInv, TypeOK
<1>7. StageInv'
  <2> SUFFICES ASSUME NEW u \in Turn PROVE Stage(u)'
    BY DEF StageInv
  <2>1. CASE u = t
    BY <1>1, <1>2, <1>5, <1>6, <2>1 DEF Stage, Live
  <2>2. CASE u # t
    BY <1>1, <2>2, DeliveredFrame
  <2> QED
    BY <2>1, <2>2
<1>8. BusyWillEnd'
  <2> SUFFICES ASSUME NEW c \in Conversation, NEW u, running'[c] = u, u # NoTurn
               PROVE  \/ at'[u] \in {"preparing", "asking"} \/ Live(u)'
                      \/ <<"terminal", u>> \in Range(inbox') \/ <<"refused", u>> \in Range(inbox')
    BY DEF BusyWillEnd
  <2>1. CASE u = t
    BY <1>1, <1>6, <2>1
  <2>2. CASE u # t
    <3>1. running[c] = u
      BY <1>1, <2>2, OfAssumption DEF LifeInv, TypeOK
    <3> QED
      BY <1>1, <2>2, <3>1, DeliveredBusy
  <2> QED
    BY <2>1, <2>2
<1> QED
  BY <1>2, <1>4, <1>7, <1>8 DEF LifeInv

LEMMA ReplyInv == ASSUME LifeInv, NEW t \in Turn, OnReply(t) PROVE LifeInv'
<1>1. /\ Takes("reply", t) /\ running' = [running EXCEPT ![Of[t]] = t] /\ known' = Noted(known, t)
      /\ at' = [at EXCEPT ![t] = "sent"] /\ lock' = Unlocked(t)
      /\ UNCHANGED <<queue, deferred, target, resolved, summarising, work, mapped, answer>>
  BY DEF OnReply, MarkStarted, interjection, backend
<1>2. /\ inbox' \in Seq(Message) /\ InOrder'
      /\ Range(inbox) = Range(inbox') \cup {<<"reply", t>>}
      /\ \A m \in Range(inbox') : m[2] = t => m[1] = "terminal"
  BY <1>1, Delivered DEF LifeInv
<1>3. known' \in Seq(Turn) /\ IsInjective(known')
  BY <1>1, NotedProperties DEF LifeInv, TypeOK
<1>4. Stage(t) /\ <<"reply", t>>[1] = "reply" /\ <<"reply", t>>[2] = t
  BY DEF LifeInv, StageInv
<1>5. /\ at[t] = "asking" /\ work[t] # "none"
      /\ Live(t) \/ <<"terminal", t>> \in Range(inbox')
  BY <1>2, <1>4 DEF Stage, LifeInv, TypeOK
<1>6. TypeOK' /\ QueueInv' /\ OwnInv'
  <2>1. TypeOK'
    BY <1>1, <1>2, <1>3, OfAssumption DEF LifeInv, TypeOK, Unlocked
  <2>2. QueueInv'
    BY <1>1, <1>5 DEF LifeInv, TypeOK, QueueInv
  <2>3. OwnInv'
    BY <1>1, OfAssumption DEF LifeInv, TypeOK, OwnInv
  <2> QED
    BY <2>1, <2>2, <2>3
<1>7. StageInv'
  <2> SUFFICES ASSUME NEW u \in Turn PROVE Stage(u)'
    BY DEF StageInv
  <2>1. at'[u] = IF u = t THEN "sent" ELSE at[u]
    BY <1>1 DEF LifeInv, TypeOK
  <2>2. CASE u = t
    <3>1. \A k : <<k, t>>[1] = k /\ <<k, t>>[2] = t
      OBVIOUS
    <3> QED
      BY <1>1, <1>2, <1>4, <1>5, <2>1, <2>2, <3>1 DEF Stage, Live
  <2>3. CASE u # t
    BY <1>1, <2>1, <2>3, DeliveredFrame
  <2> QED
    BY <2>2, <2>3
<1>8. BusyWillEnd'
  <2> SUFFICES ASSUME NEW c \in Conversation, NEW u, running'[c] = u, u # NoTurn
               PROVE  \/ at'[u] \in {"preparing", "asking"} \/ Live(u)'
                      \/ <<"terminal", u>> \in Range(inbox') \/ <<"refused", u>> \in Range(inbox')
    BY DEF BusyWillEnd
  <2>1. CASE u = t
    BY <1>1, <1>5, <2>1 DEF Live
  <2>2. CASE u # t
    <3>1. running[c] = u /\ at'[u] = at[u]
      BY <1>1, <2>2, OfAssumption DEF LifeInv, TypeOK
    <3> QED
      BY <1>1, <2>2, <3>1, DeliveredBusy
  <2> QED
    BY <2>1, <2>2
<1> QED
  BY <1>2, <1>6, <1>7, <1>8 DEF LifeInv

LEMMA RefusedInv == ASSUME LifeInv, NEW t \in Turn, OnRefused(t) PROVE LifeInv'
<1>1. /\ Takes("refused", t) /\ running' = MarkFinished(t)
      /\ at' = [at EXCEPT ![t] = "failed"] /\ lock' = Unlocked(t)
      /\ UNCHANGED <<queue, known, deferred, target, resolved, summarising, work, mapped, answer>>
  BY DEF OnRefused, Throw, interjection, backend
<1>2. /\ inbox' \in Seq(Message) /\ InOrder'
      /\ Range(inbox) = Range(inbox') \cup {<<"refused", t>>}
      /\ \A m \in Range(inbox') : m[2] # t
  <2>1. /\ inbox' \in Seq(Message) /\ InOrder'
        /\ Range(inbox) = Range(inbox') \cup {<<"refused", t>>}
        /\ \A m \in Range(inbox') : m[2] = t => "refused" \in {"started", "reply"}
    BY <1>1, Delivered DEF LifeInv
  <2> QED
    BY <2>1
<1>3. Stage(t) /\ <<"refused", t>>[1] = "refused" /\ <<"refused", t>>[2] = t
  BY DEF LifeInv, StageInv
<1>4. at[t] = "asking" /\ work[t] # "none" /\ ~Live(t)
  BY <1>2, <1>3 DEF Stage, LifeInv, TypeOK
<1>5. running' = [running EXCEPT ![Of[t]] = IF running[Of[t]] = t THEN NoTurn ELSE running[Of[t]]]
  BY <1>1 DEF MarkFinished
<1>6. TypeOK' /\ QueueInv' /\ OwnInv'
  <2>1. TypeOK'
    <3>1. running' \in [Conversation -> Turn \cup {NoTurn}]
      BY <1>5, OfAssumption DEF LifeInv, TypeOK
    <3> QED
      BY <1>1, <1>2, <3>1 DEF LifeInv, TypeOK, Unlocked
  <2>2. QueueInv'
    BY <1>1, <1>4 DEF LifeInv, TypeOK, QueueInv
  <2>3. OwnInv'
    BY <1>1, <1>5, OfAssumption DEF LifeInv, TypeOK, OwnInv
  <2> QED
    BY <2>1, <2>2, <2>3
<1>7. StageInv'
  <2> SUFFICES ASSUME NEW u \in Turn PROVE Stage(u)'
    BY DEF StageInv
  <2>1. at'[u] = IF u = t THEN "failed" ELSE at[u]
    BY <1>1 DEF LifeInv, TypeOK
  <2>2. CASE u = t
    <3>1. \A k : <<k, t>>[1] = k /\ <<k, t>>[2] = t
      OBVIOUS
    <3> QED
      BY <1>1, <1>2, <1>4, <2>1, <2>2, <3>1 DEF Stage, Live
  <2>3. CASE u # t
    BY <1>1, <2>1, <2>3, DeliveredFrame
  <2> QED
    BY <2>2, <2>3
<1>8. BusyWillEnd'
  <2> SUFFICES ASSUME NEW c \in Conversation, NEW u, running'[c] = u, u # NoTurn
               PROVE  \/ at'[u] \in {"preparing", "asking"} \/ Live(u)'
                      \/ <<"terminal", u>> \in Range(inbox') \/ <<"refused", u>> \in Range(inbox')
    BY DEF BusyWillEnd
  <2>1. running[c] = u /\ u # t
    BY <1>5, OfAssumption DEF LifeInv, TypeOK, OwnInv
  <2>2. at'[u] = at[u]
    BY <1>1, <2>1 DEF LifeInv, TypeOK
  <2> QED
    BY <1>1, <2>1, <2>2, DeliveredBusy
<1> QED
  BY <1>2, <1>6, <1>7, <1>8 DEF LifeInv

(* The last event of a turn finds it answered, and nothing follows it.        *)
LEMMA TerminalStage ==
  ASSUME LifeInv, NEW t \in Turn, Takes("terminal", t)
  PROVE  /\ inbox' \in Seq(Message) /\ InOrder'
         /\ Range(inbox) = Range(inbox') \cup {<<"terminal", t>>}
         /\ \A m \in Range(inbox') : m[2] # t
         /\ work[t] # "none" /\ ~Live(t) /\ at[t] = "sent"
<1>1. /\ inbox' \in Seq(Message) /\ InOrder'
      /\ Range(inbox) = Range(inbox') \cup {<<"terminal", t>>}
      /\ \A m \in Range(inbox') : m[2] = t => "terminal" \in {"started", "reply"}
  BY Delivered DEF LifeInv
<1>2. \A m \in Range(inbox') : m[2] # t
  BY <1>1
<1>3. Stage(t) /\ <<"terminal", t>> \in Range(inbox) /\ <<"terminal", t>>[2] = t
  BY <1>1 DEF LifeInv, StageInv
<1>4. work[t] # "none" /\ ~Live(t) /\ at[t] \in {"asking", "sent"}
  BY <1>3 DEF Stage, LifeInv, TypeOK
<1>5. \A k : <<k, t>> \in Range(inbox) => k = "terminal"
  <2>1. \A k : <<k, t>>[2] = t /\ <<k, t>>[1] = k
    OBVIOUS
  <2> QED
    BY <1>1, <1>2, <2>1
<1>6. at[t] = "sent"
  BY <1>3, <1>4, <1>5 DEF Stage
<1> QED
  BY <1>1, <1>2, <1>4, <1>6

(* The end of a turn, whether or not another one is begun in replacement.     *)
LEMMA ConcludeInv ==
  ASSUME LifeInv, NEW t \in Turn, Takes("terminal", t),
         NEW replacement \in Turn \cup {NoTurn}, NEW cleanup \in BOOLEAN,
         replacement # NoTurn => at[replacement] = "new" /\ Of[replacement] = Of[t],
         Conclude(t, replacement, cleanup), summarising' \subseteq Turn
  PROVE  LifeInv'
<1> DEFINE woken == IF deferred # NoTurn /\ target[deferred] = t THEN deferred ELSE NoTurn
           resumed == IF woken # NoTurn /\ at[woken] = "waiting" THEN woken ELSE NoTurn
           last == IF resumed # NoTurn THEN resumed ELSE replacement
           kept == IF cleanup THEN Forgotten(known, t) ELSE known
<1>1. /\ deferred' = (IF woken = NoTurn THEN deferred ELSE NoTurn)
      /\ resolved' = resolved \cup ({woken} \ {NoTurn})
      /\ at' = [u \in Turn |-> IF u \in {replacement, resumed} THEN "preparing" ELSE at[u]]
      /\ running' = [running EXCEPT ![Of[t]] =
                       IF last # NoTurn THEN last ELSE IF running[Of[t]] = t THEN NoTurn ELSE running[Of[t]]]
      /\ known' = Noted(Noted(kept, replacement), resumed)
      /\ UNCHANGED <<queue, lock, target, work, mapped, answer>>
  BY DEF Conclude, backend
<1>2. /\ woken \in Turn \cup {NoTurn} /\ resumed \in Turn \cup {NoTurn} /\ last \in Turn \cup {NoTurn}
      /\ resumed # NoTurn => at[resumed] = "waiting" /\ Of[resumed] = Of[t]
      /\ last # NoTurn => last \in {replacement, resumed} /\ Of[last] = Of[t]
  <2>1. woken \in Turn \cup {NoTurn} /\ (woken # NoTurn => target[woken] = t)
    BY DEF LifeInv, TypeOK
  <2>2. woken # NoTurn => Of[woken] = Of[t]
    BY <2>1, NoTurnAssumption DEF LifeInv, OwnInv
  <2> HIDE DEF woken
  <2> QED
    BY <2>1, <2>2
<1>3. known' \in Seq(Turn) /\ IsInjective(known')
  <2>1. kept \in Seq(Turn) /\ IsInjective(kept)
    BY ForgottenProperties DEF LifeInv, TypeOK
  <2> HIDE DEF kept, resumed
  <2>2. Noted(kept, replacement) \in Seq(Turn) /\ IsInjective(Noted(kept, replacement))
    BY <2>1, NotedProperties
  <2> QED
    BY <1>1, <1>2, <2>2, NotedProperties
<1>4. /\ inbox' \in Seq(Message) /\ InOrder'
      /\ Range(inbox) = Range(inbox') \cup {<<"terminal", t>>}
      /\ \A m \in Range(inbox') : m[2] # t
  BY TerminalStage
<1> HIDE DEF woken, resumed, last, kept
<1>5. \A u \in Turn : \/ at'[u] = at[u]
                      \/ at[u] \in {"new", "waiting"} /\ at'[u] = "preparing"
  BY <1>1, <1>2, NoTurnAssumption
<1>6. TypeOK'
  <2>1. /\ at' \in [Turn -> {"new", "queued", "interrupting", "waiting",
                            "preparing", "asking", "sent", "failed"}]
        /\ running' \in [Conversation -> Turn \cup {NoTurn}]
    BY <1>1, <1>2, OfAssumption DEF LifeInv, TypeOK
  <2>2. deferred' \in Turn \cup {NoTurn} /\ resolved' \subseteq Turn
    BY <1>1, <1>2 DEF LifeInv, TypeOK
  <2> QED
    BY <1>1, <1>3, <1>4, <2>1, <2>2 DEF LifeInv, TypeOK
<1>7. QueueInv'
  <2>1. \A u \in Range(queue) : u \in Turn /\ at[u] = "queued"
    BY LenProperties, ElementOfSeq DEF LifeInv, TypeOK, QueueInv, Range
  <2> QED
    BY <1>1, <1>5, <2>1 DEF LifeInv, QueueInv
<1>8. OwnInv'
  BY <1>1, <1>2, OfAssumption DEF LifeInv, TypeOK, OwnInv
<1>9. StageInv'
  <2> SUFFICES ASSUME NEW u \in Turn PROVE Stage(u)'
    BY DEF StageInv
  <2>1. CASE u = t
    <3>1. work[t] # "none" /\ ~Live(t) /\ at[t] = "sent"
      BY TerminalStage
    <3>2. at'[t] = at[t]
      BY <1>5, <3>1
    <3>3. \A k : <<k, t>>[2] = t /\ <<k, t>>[1] = k
      OBVIOUS
    <3> QED
      BY <1>1, <1>4, <2>1, <3>1, <3>2, <3>3 DEF Stage, Live
  <2>2. CASE u # t
    BY <1>1, <1>5, <2>2, DeliveredFrame
  <2> QED
    BY <2>1, <2>2
<1>10. BusyWillEnd'
  <2> SUFFICES ASSUME NEW c \in Conversation, NEW u, running'[c] = u, u # NoTurn
               PROVE  \/ at'[u] \in {"preparing", "asking"} \/ Live(u)'
                      \/ <<"terminal", u>> \in Range(inbox') \/ <<"refused", u>> \in Range(inbox')
    BY DEF BusyWillEnd
  <2>1. CASE c = Of[t] /\ last # NoTurn
    <3>1. u = last
      BY <1>1, <2>1 DEF LifeInv, TypeOK
    <3> QED
      BY <1>1, <1>2, <2>1, <3>1
  <2>2. CASE ~(c = Of[t] /\ last # NoTurn)
    <3>1. running[c] = u /\ u # t /\ u \in Turn
      BY <1>1, <2>2, OfAssumption DEF LifeInv, TypeOK, OwnInv
    <3> QED
      BY <1>1, <1>5, <3>1, DeliveredBusy
  <2> QED
    BY <2>1, <2>2
<1> QED
  BY <1>4, <1>6, <1>7, <1>8, <1>9, <1>10 DEF LifeInv

LEMMA TerminalInv ==
  ASSUME LifeInv, NEW t \in Turn, OnDone(t) \/ OnError(t) \/ OnRecoverable(t)
  PROVE  LifeInv'
<1>1. CASE OnDone(t)
  BY <1>1, ConcludeInv DEF OnDone, LifeInv, TypeOK
<1>2. CASE OnError(t)
  BY <1>2, ConcludeInv DEF OnError, LifeInv, TypeOK
<1>3. CASE OnRecoverable(t)
  <2>1. PICK r \in Turn : at[r] = "new" /\ Of[r] = Of[t] /\ Conclude(t, r, TRUE)
    BY <1>3 DEF OnRecoverable
  <2>2. Takes("terminal", t) /\ summarising' \subseteq Turn
    BY <1>3 DEF OnRecoverable, LifeInv, TypeOK
  <2> QED
    BY <2>1, <2>2, ConcludeInv
<1> QED
  BY <1>1, <1>2, <1>3

-----------------------------------------------------------------------------
(* A turn at work has its conversation to itself.                             *)

LEMMA NotedRange ==
  ASSUME NEW ids \in Seq(Turn), NEW t \in Turn \cup {NoTurn}
  PROVE  Range(ids) \subseteq Range(Noted(ids, t)) /\ (t # NoTurn => t \in Range(Noted(ids, t)))
<1>1. CASE t = NoTurn
  BY <1>1 DEF Noted
<1>2. CASE t # NoTurn /\ Contains(ids, t)
  BY <1>2, LenProperties DEF Noted, Contains, Range
<1>3. CASE t # NoTurn /\ ~Contains(ids, t)
  BY <1>3, Appended DEF Noted
<1> QED
  BY <1>1, <1>2, <1>3

LEMMA ForgottenRange ==
  ASSUME NEW ids \in Seq(Turn), NEW t
  PROVE  Range(ids) \ {t} \subseteq Range(Forgotten(ids, t))
<1>1. CASE Contains(ids, t)
  <2>1. \E i \in DOMAIN ids : ids[i] = t
    BY <1>1, LenProperties DEF Contains
  <2>2. PICK i \in DOMAIN ids : Forgotten(ids, t) = RemoveAt(ids, i) /\ ids[i] = t
    BY <1>1, <2>1 DEF Forgotten
  <2>3. /\ DOMAIN ids = 1 .. Len(ids) /\ Len(ids) \in Nat
        /\ DOMAIN RemoveAt(ids, i) = 1 .. Len(ids) - 1
        /\ \A j \in DOMAIN RemoveAt(ids, i) :
             RemoveAt(ids, i)[j] = IF j < i THEN ids[j] ELSE ids[j + 1]
    BY LenProperties, RemoveAtProperties
  <2>4. ASSUME NEW k \in DOMAIN ids, ids[k] # t PROVE ids[k] \in Range(RemoveAt(ids, i))
    <3>1. CASE k < i
      <4>1. k \in DOMAIN RemoveAt(ids, i) /\ RemoveAt(ids, i)[k] = ids[k]
        BY <2>3, <3>1
      <4> QED
        BY <4>1 DEF Range
    <3>2. CASE ~(k < i)
      <4>1. k - 1 \in DOMAIN RemoveAt(ids, i) /\ RemoveAt(ids, i)[k - 1] = ids[k]
        BY <2>2, <2>3, <2>4, <3>2
      <4> QED
        BY <4>1 DEF Range
    <3> QED
      BY <3>1, <3>2
  <2> QED
    BY <2>2, <2>4 DEF Range
<1>2. CASE ~Contains(ids, t)
  BY <1>2 DEF Forgotten
<1> QED
  BY <1>1, <1>2

(* A turn may be begun where nobody else claims the conversation, or somebody *)
(* has interjected.                                                           *)
LEMMA RunTurnClaims ==
  ASSUME LifeInv, ClaimInv, PauseInv, NEW t \in Turn, RunTurn(t), at[t] # "sent",
         UNCHANGED <<target, work, inbox, summarising>>,
         \A u \in Turn : Claims(u) /\ Of[u] = Of[t] /\ ~Interjected(Of[t]) => u = t
  PROVE  ClaimInv' /\ PauseInv'
<1>1. /\ at' = [at EXCEPT ![t] = "preparing"]
      /\ running' = [running EXCEPT ![Of[t]] = t]
      /\ known' = Noted(known, t) /\ Of[t] \in Conversation
      /\ at \in [Turn -> {"new", "queued", "interrupting", "waiting",
                         "preparing", "asking", "sent", "failed"}]
      /\ running \in [Conversation -> Turn \cup {NoTurn}]
  BY RunTurnTypes DEF RunTurn, LifeInv, TypeOK
<1>2. Range(known) \subseteq Range(known') /\ t \in Range(known')
  BY <1>1, NotedRange, NoTurnAssumption DEF LifeInv, TypeOK
<1>3. \A u \in Turn : u # t => (Claims(u)' <=> Claims(u))
  BY <1>1 DEF Claims, AtWork, Live
<1>4. \A c : Interjected(c)' <=> Interjected(c)
  BY DEF Interjected
<1>5. ClaimInv'
  <2> SUFFICES ASSUME NEW u \in Turn, Claims(u)'
               PROVE  u \in Range(known') /\ (~Interjected(Of[u])' => running'[Of[u]] = u)
    BY DEF ClaimInv
  <2>1. CASE u = t
    BY <1>1, <1>2, <2>1
  <2>2. CASE u # t
    BY <1>1, <1>2, <1>3, <1>4, <2>2, OfAssumption DEF ClaimInv
  <2> QED
    BY <2>1, <2>2
<1>6. PauseInv'
  BY <1>1, <1>3 DEF PauseInv, LifeInv, TypeOK
<1> QED
  BY <1>5, <1>6

(* A step that makes nobody claim anything, and takes nothing away.           *)
LEMMA ClaimFrame ==
  ASSUME ClaimInv, UNCHANGED <<running, known>>,
         \A u \in Turn : target[u] # NoTurn => target'[u] # NoTurn,
         \A u \in Turn : Claims(u)' => Claims(u)
  PROVE  ClaimInv'
<1>1. \A c : Interjected(c) => Interjected(c)'
  BY DEF Interjected
<1> QED
  BY <1>1 DEF ClaimInv

LEMMA SendClaims == ASSUME IndInv, NEW t \in Turn, SendMessage(t) PROVE ClaimInv' /\ PauseInv'
<1>1. at[t] = "new" /\ UNCHANGED <<target, work, inbox, summarising>>
  BY DEF SendMessage, interjection, backend
<1>2. CASE running[Of[t]] # NoTurn
  <2>1. at' = [at EXCEPT ![t] = "queued"] /\ UNCHANGED <<running, known>>
    BY <1>2 DEF SendMessage
  <2>2. \A u \in Turn : Claims(u)' => Claims(u)
    BY <1>1, <2>1 DEF Claims, AtWork, Live, IndInv, LifeInv, TypeOK
  <2>3. ClaimInv'
    BY <1>1, <2>1, <2>2, ClaimFrame DEF IndInv
  <2>4. PauseInv'
    BY <1>1, <2>1, <2>2 DEF IndInv, LifeInv, TypeOK, PauseInv
  <2> QED
    BY <2>3, <2>4
<1>3. CASE running[Of[t]] = NoTurn
  <2>1. RunTurn(t)
    BY <1>3 DEF SendMessage
  <2>2. \A u \in Turn : Claims(u) /\ Of[u] = Of[t] /\ ~Interjected(Of[t]) => u = t
    BY <1>3, NoTurnAssumption DEF IndInv, ClaimInv
  <2> QED
    BY <1>1, <2>1, <2>2, RunTurnClaims DEF IndInv
<1> QED
  BY <1>2, <1>3

LEMMA FlushClaims == ASSUME IndInv, FlushQueued PROVE ClaimInv' /\ PauseInv'
<1>1. PICK i \in DOMAIN queue :
        /\ running[Of[queue[i]]] = NoTurn /\ RunTurn(queue[i])
        /\ UNCHANGED <<target, work, inbox, summarising>>
  BY DEF FlushQueued, interjection, backend
<1>2. queue[i] \in Turn /\ at[queue[i]] = "queued"
  BY LenProperties, ElementOfSeq DEF IndInv, LifeInv, TypeOK, QueueInv, Range
<1>3. \A u \in Turn : Claims(u) /\ Of[u] = Of[queue[i]] /\ ~Interjected(Of[queue[i]]) => u = queue[i]
  BY <1>1, NoTurnAssumption DEF IndInv, ClaimInv
<1> QED
  BY <1>1, <1>2, <1>3, RunTurnClaims DEF IndInv

LEMMA InterjectClaims == ASSUME IndInv, NEW t \in Turn, Interject(t) PROVE ClaimInv' /\ PauseInv'
<1>1. at[t] = "queued" /\ UNCHANGED <<work, inbox, summarising>>
  BY DEF Interject, backend, IndInv, LifeInv, QueueInv, Range
<1>2. CASE (\A i \in DOMAIN known : Of[known[i]] # Of[t]) /\ RunTurn(t) /\ UNCHANGED interjection
  <2>1. \A u \in Turn : Claims(u) /\ Of[u] = Of[t] /\ ~Interjected(Of[t]) => u = t
    BY <1>2 DEF IndInv, ClaimInv, Range
  <2>2. UNCHANGED target
    BY <1>2 DEF interjection
  <2> QED
    BY <1>1, <1>2, <2>1, <2>2, RunTurnClaims DEF IndInv
<1>3. CASE /\ \E i \in DOMAIN known : target' = [target EXCEPT ![t] = known[i]]
           /\ at' = [at EXCEPT ![t] = "interrupting"]
           /\ UNCHANGED <<running, known>>
  <2>1. PICK i \in DOMAIN known : target' = [target EXCEPT ![t] = known[i]]
    BY <1>3
  <2>2. known[i] # NoTurn
    BY LenProperties, ElementOfSeq, NoTurnAssumption DEF IndInv, LifeInv, TypeOK
  <2>3. \A u \in Turn : Claims(u)' => Claims(u)
    BY <1>1, <1>3 DEF Claims, AtWork, Live, IndInv, LifeInv, TypeOK
  <2>4. \A u \in Turn : target'[u] = IF u = t THEN known[i] ELSE target[u]
    BY <2>1 DEF IndInv, LifeInv, TypeOK
  <2>5. ClaimInv'
    BY <1>3, <2>2, <2>3, <2>4, ClaimFrame DEF IndInv
  <2>6. PauseInv'
    BY <1>1, <1>3, <2>2, <2>3, <2>4 DEF IndInv, LifeInv, TypeOK, PauseInv
  <2> QED
    BY <2>5, <2>6
<1> QED
  BY <1>2, <1>3 DEF Interject

LEMMA AnsweredClaims ==
  ASSUME IndInv, NEW t \in Turn, InterruptAnswered(t) PROVE ClaimInv' /\ PauseInv'
<1>1. at[t] = "interrupting" /\ UNCHANGED <<target, work, inbox, summarising>>
  BY DEF InterruptAnswered, backend
<1>2. CASE RunTurn(t)
  <2>1. Interjected(Of[t])
    BY <1>1 DEF IndInv, PauseInv, Interjected
  <2> QED
    BY <1>1, <1>2, <2>1, RunTurnClaims DEF IndInv
<1>3. CASE at' = [at EXCEPT ![t] = "waiting"] /\ UNCHANGED <<running, known>>
  <2>1. \A u \in Turn : Claims(u)' => Claims(u)
    BY <1>1, <1>3 DEF Claims, AtWork, Live, IndInv, LifeInv, TypeOK
  <2>2. ClaimInv'
    BY <1>1, <1>3, <2>1, ClaimFrame DEF IndInv
  <2>3. PauseInv'
    BY <1>1, <1>3, <2>1 DEF IndInv, LifeInv, TypeOK, PauseInv
  <2> QED
    BY <2>2, <2>3
<1> QED
  BY <1>2, <1>3 DEF InterruptAnswered

LEMMA PrepareClaims == ASSUME IndInv, NEW t \in Turn, Prepare(t) PROVE ClaimInv' /\ PauseInv'
<1>1. /\ at[t] = "preparing" /\ at' = [at EXCEPT ![t] = "asking"]
      /\ UNCHANGED <<running, known, target, work, inbox, summarising>>
  BY DEF Prepare, interjection, backend
<1>2. \A u \in Turn : Claims(u)' => Claims(u)
  BY <1>1 DEF Claims, AtWork, Live, IndInv, LifeInv, TypeOK
<1>3. ClaimInv'
  BY <1>1, <1>2, ClaimFrame DEF IndInv
<1>4. PauseInv'
  BY <1>1, <1>2 DEF IndInv, LifeInv, TypeOK, PauseInv
<1> QED
  BY <1>3, <1>4

(* What the backend does for a turn that is at work, it does for one that     *)
(* claims its conversation.                                                   *)
LEMMA BackendClaims ==
  ASSUME IndInv, NEW t \in Turn, AtWork(t), UNCHANGED <<at, running, known, target, summarising>>,
         \A u \in Turn : u # t => work'[u] = work[u],
         \A m \in Range(inbox') : m \in Range(inbox) \/ m[2] = t
  PROVE  ClaimInv' /\ PauseInv'
<1>1. \A u \in Turn : Claims(u)' => Claims(u)
  BY DEF Claims, AtWork, Live
<1>2. ClaimInv'
  BY <1>1, ClaimFrame DEF IndInv
<1>3. PauseInv'
  BY <1>1 DEF IndInv, PauseInv, LifeInv, TypeOK
<1> QED
  BY <1>2, <1>3

LEMMA AcceptClaims == ASSUME IndInv, NEW t \in Turn, Accept(t) PROVE ClaimInv' /\ PauseInv'
<1> DEFINE s == <<"started", t>>
           r == <<"reply", t>>
           mid == Append(inbox, s)
<1>1. /\ AtWork(t) /\ inbox' = Append(mid, r)
      /\ \A u \in Turn : u # t => work'[u] = work[u]
      /\ UNCHANGED <<at, running, known, target, summarising>>
  BY DEF Accept, AtWork, chat, interjection, IndInv, LifeInv, TypeOK
<1>2. s \in Message /\ r \in Message /\ s[2] = t /\ r[2] = t /\ inbox \in Seq(Message)
  BY DEF Message, IndInv, LifeInv, TypeOK
<1>3. mid \in Seq(Message) /\ Range(mid) = Range(inbox) \cup {s}
  BY <1>2, Appended
<1> HIDE DEF s, r, mid
<1>4. Range(inbox') = Range(mid) \cup {r}
  BY <1>1, <1>2, <1>3, Appended
<1>5. \A m \in Range(inbox') : m \in Range(inbox) \/ m[2] = t
  BY <1>2, <1>3, <1>4
<1> QED
  BY <1>1, <1>5, BackendClaims

LEMMA RefuseClaims == ASSUME IndInv, NEW t \in Turn, Refuse(t) PROVE ClaimInv' /\ PauseInv'
<1> DEFINE s == <<"started", t>>
           r == <<"refused", t>>
           mid == Append(inbox, s)
<1>1. /\ AtWork(t) /\ inbox' \in {Append(inbox, r), Append(mid, r)}
      /\ \A u \in Turn : u # t => work'[u] = work[u]
      /\ UNCHANGED <<at, running, known, target, summarising>>
  BY DEF Refuse, AtWork, chat, interjection, IndInv, LifeInv, TypeOK
<1>2. s \in Message /\ r \in Message /\ s[2] = t /\ r[2] = t /\ inbox \in Seq(Message)
  BY DEF Message, IndInv, LifeInv, TypeOK
<1>3. mid \in Seq(Message) /\ Range(mid) = Range(inbox) \cup {s}
  BY <1>2, Appended
<1> HIDE DEF s, r, mid
<1>4. Range(Append(inbox, r)) = Range(inbox) \cup {r} /\ Range(Append(mid, r)) = Range(mid) \cup {r}
  BY <1>2, <1>3, Appended
<1>5. \A m \in Range(inbox') : m \in Range(inbox) \/ m[2] = t
  BY <1>1, <1>2, <1>3, <1>4
<1> QED
  BY <1>1, <1>5, BackendClaims

LEMMA BecomesClaims ==
  ASSUME IndInv, NEW t \in Turn, BecomesInterruptible(t) PROVE ClaimInv' /\ PauseInv'
<1>1. /\ AtWork(t) /\ inbox' = inbox
      /\ \A u \in Turn : u # t => work'[u] = work[u]
      /\ UNCHANGED <<at, running, known, target, summarising>>
  BY DEF BecomesInterruptible, AtWork, Live, chat, interjection, IndInv, LifeInv, TypeOK
<1> QED
  BY <1>1, BackendClaims

LEMMA TurnEndsClaims ==
  ASSUME IndInv, NEW t \in Turn, TurnEnds(t) PROVE ClaimInv' /\ PauseInv'
<1>1. /\ AtWork(t) /\ inbox' = Append(inbox, <<"terminal", t>>)
      /\ \A u \in Turn : u # t => work'[u] = work[u]
      /\ UNCHANGED <<at, running, known, target, summarising>>
  BY DEF TurnEnds, AtWork, chat, interjection, IndInv, LifeInv, TypeOK
<1>2. /\ <<"terminal", t>> \in Message /\ <<"terminal", t>>[2] = t /\ inbox \in Seq(Message)
  BY DEF Message, IndInv, LifeInv, TypeOK
<1>3. Range(inbox') = Range(inbox) \cup {<<"terminal", t>>}
  BY <1>1, <1>2, Appended
<1> QED
  BY <1>1, <1>2, <1>3, BackendClaims

LEMMA InterruptClaims ==
  ASSUME IndInv, NEW t \in Turn, Interrupt(t) PROVE ClaimInv' /\ PauseInv'
<1>1. UNCHANGED <<at, running, known, target, work, inbox, summarising>>
  BY DEF Interrupt, chat, interjection, backend
<1> QED
  BY <1>1 DEF IndInv, ClaimInv, PauseInv, Claims, AtWork, Live, Interjected

(* An event of a turn that goes on confirms that the conversation is its own. *)
LEMMA ConfirmedClaims ==
  ASSUME IndInv, NEW kind, NEW t \in Turn, Takes(kind, t),
         UNCHANGED <<target, work, summarising>>,
         at'[t] = at[t] \/ (at[t] # "sent" /\ at'[t] = "sent"),
         \A u \in Turn : u # t => at'[u] = at[u],
         running' = [running EXCEPT ![Of[t]] = t], known' = Noted(known, t)
  PROVE  ClaimInv' /\ PauseInv'
<1>1. Range(inbox) = Range(inbox') \cup {<<kind, t>>} /\ <<kind, t>>[2] = t
  BY Delivered DEF IndInv, LifeInv
<1>2. Claims(t) /\ \A u \in Turn : Claims(u)' => Claims(u)
  BY <1>1 DEF Claims, AtWork, Live
<1>3. Range(known) \subseteq Range(known')
  BY NotedRange DEF IndInv, LifeInv, TypeOK
<1>4. \A c : Interjected(c)' <=> Interjected(c)
  BY DEF Interjected
<1>5. \A c \in Conversation : running'[c] = IF c = Of[t] THEN t ELSE running[c]
  BY DEF IndInv, LifeInv, TypeOK
<1>6. ClaimInv'
  <2> SUFFICES ASSUME NEW u \in Turn, Claims(u)'
               PROVE  u \in Range(known') /\ (~Interjected(Of[u])' => running'[Of[u]] = u)
    BY DEF ClaimInv
  <2>1. /\ u \in Range(known) /\ (~Interjected(Of[u]) => running[Of[u]] = u)
        /\ (~Interjected(Of[t]) => running[Of[t]] = t)
    BY <1>2 DEF IndInv, ClaimInv
  <2> QED
    BY <1>3, <1>4, <1>5, <2>1, OfAssumption
<1>7. PauseInv'
  BY <1>2 DEF IndInv, PauseInv, LifeInv, TypeOK
<1> QED
  BY <1>6, <1>7

LEMMA StartedClaims == ASSUME IndInv, NEW t \in Turn, OnStarted(t) PROVE ClaimInv' /\ PauseInv'
<1>1. /\ Takes("started", t) /\ running' = [running EXCEPT ![Of[t]] = t] /\ known' = Noted(known, t)
      /\ UNCHANGED <<at, target, work, summarising>>
  BY DEF OnStarted, MarkStarted, interjection, backend
<1> QED
  BY <1>1, ConfirmedClaims

LEMMA ReplyClaims == ASSUME IndInv, NEW t \in Turn, OnReply(t) PROVE ClaimInv' /\ PauseInv'
<1>1. /\ Takes("reply", t) /\ running' = [running EXCEPT ![Of[t]] = t] /\ known' = Noted(known, t)
      /\ at' = [at EXCEPT ![t] = "sent"] /\ UNCHANGED <<target, work, summarising>>
  BY DEF OnReply, MarkStarted, interjection, backend
<1>2. at'[t] = "sent" /\ \A u \in Turn : u # t => at'[u] = at[u]
  BY <1>1 DEF IndInv, LifeInv, TypeOK
<1>3. at'[t] = at[t] \/ (at[t] # "sent" /\ at'[t] = "sent")
  BY <1>2
<1> QED
  BY <1>1, <1>2, <1>3, ConfirmedClaims

LEMMA SummarisedClaims ==
  ASSUME IndInv, NEW t \in Turn, Summarised(t) PROVE ClaimInv' /\ PauseInv'
<1>1. /\ t \in summarising /\ summarising' = summarising \ {t} /\ known' = Forgotten(known, t)
      /\ UNCHANGED <<at, running, target, work, inbox>>
  BY DEF Summarised, interjection, backend
<1>2. ~Claims(t) /\ \A u : Claims(u)' <=> Claims(u)
  BY <1>1 DEF IndInv, PauseInv, Claims, AtWork, Live
<1>3. Range(known) \ {t} \subseteq Range(known')
  BY <1>1, ForgottenRange DEF IndInv, LifeInv, TypeOK
<1>4. \A c : Interjected(c)' <=> Interjected(c)
  BY <1>1 DEF Interjected
<1>5. ClaimInv'
  BY <1>1, <1>2, <1>3, <1>4 DEF IndInv, ClaimInv
<1>6. PauseInv'
  BY <1>1, <1>2 DEF IndInv, PauseInv
<1> QED
  BY <1>5, <1>6

(* A turn that is over gives up its claim, its conversation, and may hand it   *)
(* to a turn that is begun in replacement.                                    *)
LEMMA OverClaims ==
  ASSUME IndInv, NEW t \in Turn, NEW r \in Turn \cup {NoTurn}, UNCHANGED <<target, work>>,
         Claims(t), ~Claims(t)', Range(inbox') \subseteq Range(inbox),
         Range(known) \ {t} \subseteq Range(known'),
         \A u \in Turn : u # t => at'[u] = at[u] \/ (u \in Range(known') /\ (~Interjected(Of[t]) => u = r)
                                                   /\ Of[u] = Of[t]),
         \A c \in Conversation : c # Of[t] => running'[c] = running[c],
         ~Interjected(Of[t]) => running'[Of[t]] = r
  PROVE  ClaimInv'
<1>1. \A c : Interjected(c)' <=> Interjected(c)
  BY DEF Interjected
<1>2. \A u \in Turn : at'[u] = at[u] /\ Claims(u)' => Claims(u)
  BY DEF Claims, AtWork, Live
<1>3. \A u \in Turn : Claims(u) => u \in Range(known) /\ (~Interjected(Of[u]) => running[Of[u]] = u)
  BY DEF IndInv, ClaimInv
<1> SUFFICES ASSUME NEW u \in Turn, Claims(u)'
             PROVE  u \in Range(known') /\ (~Interjected(Of[u])' => running'[Of[u]] = u)
  BY DEF ClaimInv
<1>4. u # t
  OBVIOUS
<1>5. CASE at'[u] = at[u]
  <2>1. Claims(u) /\ u \in Range(known')
    BY <1>2, <1>3, <1>4, <1>5
  <2>2. CASE Of[u] = Of[t]
    BY <1>1, <1>3, <1>4, <2>1, <2>2
  <2>3. CASE Of[u] # Of[t]
    BY <1>1, <1>3, <2>1, <2>3, OfAssumption
  <2> QED
    BY <2>2, <2>3
<1>6. CASE u \in Range(known') /\ (~Interjected(Of[t]) => u = r) /\ Of[u] = Of[t]
  BY <1>1, <1>6
<1> QED
  BY <1>4, <1>5, <1>6

LEMMA RefusedClaims == ASSUME IndInv, NEW t \in Turn, OnRefused(t) PROVE ClaimInv' /\ PauseInv'
<1>1. /\ Takes("refused", t) /\ at' = [at EXCEPT ![t] = "failed"]
      /\ running' = [running EXCEPT ![Of[t]] = IF running[Of[t]] = t THEN NoTurn ELSE running[Of[t]]]
      /\ UNCHANGED <<known, target, work, summarising>>
  BY DEF OnRefused, Throw, MarkFinished, interjection, backend
<1>2. /\ Range(inbox) = Range(inbox') \cup {<<"refused", t>>} /\ <<"refused", t>>[2] = t
      /\ \A m \in Range(inbox') : m[2] = t => "refused" \in {"started", "reply"}
  BY <1>1, Delivered DEF IndInv, LifeInv
<1>3. Claims(t) /\ ~Live(t) /\ at'[t] = "failed" /\ \A u \in Turn : u # t => at'[u] = at[u]
  <2>1. <<"refused", t>> \in Range(inbox) /\ Stage(t)
    BY <1>2 DEF IndInv, LifeInv, StageInv
  <2>2. Claims(t)
    BY <1>2, <2>1 DEF Claims
  <2>3. ~Live(t)
    BY <2>1 DEF Stage
  <2>4. at'[t] = "failed" /\ \A u \in Turn : u # t => at'[u] = at[u]
    BY <1>1 DEF IndInv, LifeInv, TypeOK
  <2> QED
    BY <2>2, <2>3, <2>4
<1>4. ~Claims(t)'
  BY <1>1, <1>2, <1>3 DEF Claims, AtWork, Live
<1>5. /\ ~Interjected(Of[t]) => running'[Of[t]] = NoTurn
      /\ \A c \in Conversation : c # Of[t] => running'[c] = running[c]
  BY <1>1, <1>3, OfAssumption DEF IndInv, LifeInv, TypeOK, ClaimInv
<1>6. ClaimInv'
  BY <1>1, <1>2, <1>3, <1>4, <1>5, OverClaims
<1>7. PauseInv'
  <2>1. \A u \in Turn : u # t /\ Claims(u)' => Claims(u)
    BY <1>1, <1>2, <1>3 DEF Claims, AtWork, Live
  <2> QED
    BY <1>1, <1>3, <2>1 DEF IndInv, PauseInv, LifeInv, TypeOK
<1> QED
  BY <1>6, <1>7

LEMMA ConcludeClaims ==
  ASSUME IndInv, NEW t \in Turn, Takes("terminal", t),
         NEW replacement \in Turn \cup {NoTurn}, NEW cleanup \in BOOLEAN,
         replacement # NoTurn => at[replacement] = "new" /\ Of[replacement] = Of[t],
         Conclude(t, replacement, cleanup),
         summarising' \in {summarising, summarising \cup {t}}
  PROVE  ClaimInv' /\ PauseInv'
<1> DEFINE woken == IF deferred # NoTurn /\ target[deferred] = t THEN deferred ELSE NoTurn
           resumed == IF woken # NoTurn /\ at[woken] = "waiting" THEN woken ELSE NoTurn
           last == IF resumed # NoTurn THEN resumed ELSE replacement
           kept == IF cleanup THEN Forgotten(known, t) ELSE known
<1>1. /\ at' = [u \in Turn |-> IF u \in {replacement, resumed} THEN "preparing" ELSE at[u]]
      /\ running' = [running EXCEPT ![Of[t]] =
                       IF last # NoTurn THEN last ELSE IF running[Of[t]] = t THEN NoTurn ELSE running[Of[t]]]
      /\ known' = Noted(Noted(kept, replacement), resumed)
      /\ UNCHANGED <<target, work>>
  BY DEF Conclude, backend
<1>2. /\ resumed \in Turn \cup {NoTurn}
      /\ resumed # NoTurn => at[resumed] = "waiting" /\ Of[resumed] = Of[t] /\ Interjected(Of[t])
  <2>1. woken \in Turn \cup {NoTurn} /\ (woken # NoTurn => target[woken] = t)
    BY DEF IndInv, LifeInv, TypeOK
  <2>2. woken # NoTurn => Of[woken] = Of[t] /\ Interjected(Of[t])
    BY <2>1, NoTurnAssumption DEF IndInv, LifeInv, OwnInv, Interjected
  <2> HIDE DEF woken
  <2> QED
    BY <2>1, <2>2
<1>3. /\ Range(known) \ {t} \subseteq Range(known')
      /\ replacement # NoTurn => replacement \in Range(known')
      /\ resumed # NoTurn => resumed \in Range(known')
  <2>1. kept \in Seq(Turn) /\ IsInjective(kept) /\ Range(known) \ {t} \subseteq Range(kept)
    BY ForgottenProperties, ForgottenRange DEF IndInv, LifeInv, TypeOK
  <2> HIDE DEF kept, resumed
  <2>2. /\ Noted(kept, replacement) \in Seq(Turn)
        /\ Range(kept) \subseteq Range(Noted(kept, replacement))
        /\ replacement # NoTurn => replacement \in Range(Noted(kept, replacement))
    BY <2>1, NotedProperties, NotedRange
  <2>3. /\ Range(Noted(kept, replacement)) \subseteq Range(known')
        /\ resumed # NoTurn => resumed \in Range(known')
    BY <1>1, <1>2, <2>2, NotedRange
  <2> QED
    BY <2>1, <2>2, <2>3
<1>4. /\ Range(inbox) = Range(inbox') \cup {<<"terminal", t>>} /\ <<"terminal", t>>[2] = t
      /\ \A m \in Range(inbox') : m[2] # t
      /\ ~Live(t) /\ at[t] = "sent"
  BY TerminalStage DEF IndInv
<1> HIDE DEF woken, resumed, kept
<1>5. at'[t] = "sent"
  BY <1>1, <1>2, <1>4, NoTurnAssumption
<1>6. Claims(t) /\ ~Claims(t)'
  BY <1>1, <1>4, <1>5 DEF Claims, AtWork, Live
<1>7. ClaimInv'
  <2>1. \A u \in Turn : at'[u] = at[u] \/ (u \in Range(known') /\ (~Interjected(Of[t]) => u = replacement)
                                           /\ Of[u] = Of[t])
    BY <1>1, <1>2, <1>3, NoTurnAssumption
  <2>2. /\ ~Interjected(Of[t]) => running'[Of[t]] = replacement
        /\ \A c \in Conversation : c # Of[t] => running'[c] = running[c]
    BY <1>1, <1>2, <1>6, OfAssumption DEF IndInv, LifeInv, TypeOK, ClaimInv
  <2> QED
    BY <1>1, <1>3, <1>4, <1>6, <2>1, <2>2, OverClaims
<1>8. PauseInv'
  <2>1. \A u \in Turn : at'[u] # at[u] => at[u] \in {"new", "waiting"} /\ at'[u] = "preparing"
    BY <1>1, <1>2, NoTurnAssumption
  <2>2. \A u \in Turn : at'[u] = at[u] /\ Claims(u)' => Claims(u)
    BY <1>1, <1>4 DEF Claims, AtWork, Live
  <2>3. summarising \subseteq Turn /\ PauseInv
    BY DEF IndInv, LifeInv, TypeOK
  <2> QED
    BY <1>1, <1>5, <1>6, <2>1, <2>2, <2>3 DEF PauseInv
<1> QED
  BY <1>7, <1>8

LEMMA TerminalClaims ==
  ASSUME IndInv, NEW t \in Turn, OnDone(t) \/ OnError(t) \/ OnRecoverable(t)
  PROVE  ClaimInv' /\ PauseInv'
<1>1. CASE OnDone(t)
  BY <1>1, ConcludeClaims DEF OnDone
<1>2. CASE OnError(t)
  BY <1>2, ConcludeClaims DEF OnError
<1>3. CASE OnRecoverable(t)
  <2>1. PICK r \in Turn : at[r] = "new" /\ Of[r] = Of[t] /\ Conclude(t, r, TRUE)
    BY <1>3 DEF OnRecoverable
  <2>2. Takes("terminal", t) /\ summarising' = summarising
    BY <1>3 DEF OnRecoverable
  <2> QED
    BY <2>1, <2>2, ConcludeClaims
<1> QED
  BY <1>1, <1>2, <1>3

-----------------------------------------------------------------------------
(* The invariant holds in every behaviour, for any turns and conversations.   *)
THEOREM ChatInvariance == Spec => []IndInv
<1>1. Init => IndInv
  <2> SUFFICES ASSUME Init PROVE IndInv
    OBVIOUS
  <2>1. LifeInv
    BY InitInv
  <2>2. Range(inbox) = {}
    BY DEF Init, Range
  <2>3. ClaimInv /\ PauseInv
    BY <2>2 DEF Init, ClaimInv, PauseInv, Claims, AtWork, Live
  <2> QED
    BY <2>1, <2>3 DEF IndInv
<1>2. ASSUME IndInv, [Next]_vars PROVE IndInv'
  <2>1. CASE FlushQueued
    BY <1>2, <2>1, FlushInv, FlushClaims DEF IndInv
  <2>2. CASE UNCHANGED vars
    <3>1. LifeInv'
      BY <1>2, <2>2 DEF vars, chat, interjection, backend, IndInv, LifeInv, TypeOK, InOrder, StageInv,
                        Stage, Live, QueueInv, OwnInv, BusyWillEnd
    <3>2. ClaimInv' /\ PauseInv'
      BY <1>2, <2>2 DEF vars, chat, interjection, backend, IndInv, ClaimInv, PauseInv, Claims, AtWork,
                        Live, Interjected
    <3> QED
      BY <3>1, <3>2 DEF IndInv
  <2>3. ASSUME NEW t \in Turn,
               \/ SendMessage(t) \/ Prepare(t)
               \/ Accept(t) \/ Refuse(t) \/ BecomesInterruptible(t) \/ TurnEnds(t) \/ Interrupt(t)
               \/ Interject(t) \/ InterruptAnswered(t) \/ Deliver(t) \/ Summarised(t)
        PROVE  IndInv'
    <3>1. LifeInv
      BY <1>2 DEF IndInv
    <3>2. LifeInv'
      BY <2>3, <3>1, SendInv, PrepareInv, AcceptInv, RefuseInv, BecomesInv, TurnEndsInv, InterruptInv,
         InterjectInv, AnsweredInv, StartedInv, ReplyInv, RefusedInv, TerminalInv, SummarisedInv
         DEF Deliver
    <3>3. ClaimInv' /\ PauseInv'
      BY <1>2, <2>3, SendClaims, PrepareClaims, AcceptClaims, RefuseClaims, BecomesClaims,
         TurnEndsClaims, InterruptClaims, InterjectClaims, AnsweredClaims, StartedClaims, ReplyClaims,
         RefusedClaims, TerminalClaims, SummarisedClaims
         DEF Deliver
    <3> QED
      BY <3>2, <3>3 DEF IndInv
  <2> QED
    BY <1>2, <2>1, <2>2, <2>3 DEF Next
<1> QED
  BY <1>1, <1>2, PTL DEF Spec

(* Without interjections no two turns of a conversation are ever at work.      *)
THEOREM OneAtATime == Spec => []ReservedForOne
<1>1. IndInv => ReservedForOne
  BY DEF IndInv, ClaimInv, Claims, ReservedForOne
<1> QED
  BY <1>1, ChatInvariance, PTL

(* Without interjections a conversation is shown busy while its turn is live. *)
THEOREM ShownBusy == Spec => []BusyWhileLive
<1>1. IndInv => BusyWhileLive
  BY DEF IndInv, ClaimInv, Claims, AtWork, BusyWhileLive
<1> QED
  BY <1>1, ChatInvariance, PTL

(* No conversation is left busy by a turn that is over.                       *)
THEOREM NeverStuckBusy == Spec => []BusyWillEnd
<1>1. IndInv => BusyWillEnd
  BY DEF IndInv, LifeInv
<1> QED
  BY <1>1, ChatInvariance, PTL

(* The renderer's state keeps its types.                                      *)
THEOREM ChatTypes == Spec => []TypeOK
<1>1. IndInv => TypeOK
  BY DEF IndInv, LifeInv
<1> QED
  BY <1>1, ChatInvariance, PTL
=============================================================================
