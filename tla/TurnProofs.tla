----------------------------- MODULE TurnProofs -----------------------------
(***************************************************************************)
(* The invariant of the turn service holds for every set of turns and        *)
(* conversations, however turns of a conversation overlap; and the service    *)
(* keeps the gate's promise.                                                 *)
(***************************************************************************)
EXTENDS TurnService, TLAPS

(* Init establishes the invariant.                                           *)
LEMMA TurnInit == Init => BaseInv
<1> SUFFICES ASSUME Init PROVE BaseInv OBVIOUS
<1> USE NoTurnAssumption, OfAssumption, RogueAssumption DEF Init, Live
<1>1. TypeOK BY DEF TypeOK, Phase
<1>2. PhaseInv BY DEF PhaseInv
<1>3. HandleWhileRead BY DEF HandleWhileRead
<1>4. JobBelongsToPreparation BY DEF JobBelongsToPreparation
<1>5. InterruptStaysInConversation /\ PreparationIsStoppable
  BY DEF InterruptStaysInConversation, PreparationIsStoppable
<1>6. MediaInv BY DEF MediaInv
<1>7. MappingInv BY DEF MappingInv
<1>8. GateInv BY DEF GateInv
<1>. QED BY <1>1, <1>2, <1>3, <1>4, <1>5, <1>6, <1>7, <1>8 DEF BaseInv

(* What a turn's threads, its CLI and its escalation do preserves the         *)
(* invariant.                                                                *)
LEMMA TurnStep ==
  ASSUME NEW t \in Turn, BaseInv,
         \/ SendTurn(t) \/ SendRefused(t) \/ ThreadStep(t) \/ CliExits(t)
         \/ SurvivorExits(t) \/ Escalate(t) \/ Garble(t)
  PROVE  BaseInv'
<1> USE NoTurnAssumption, OfAssumption, RogueAssumption
    DEF BaseInv, TypeOK, PhaseInv, HandleWhileRead, JobBelongsToPreparation, PreparationIsStoppable,
        InterruptStaysInConversation,
        MediaInv, MappingInv, GateInv,
        Live, Phase, Goto, Unmapped, JobFinished, GateLocked, ChildLocked,
        Return, Command, command, turnVars, registry, media, interruption, gate, vars
<1>1. CASE SendTurn(t) BY <1>1 DEF SendTurn
<1>2. CASE SendRefused(t) BY <1>2 DEF SendRefused
<1>3. CASE TakeBack(t) BY <1>3 DEF TakeBack
<1>4. CASE SkipMedia(t) BY <1>4 DEF SkipMedia
<1>5. CASE StartJob(t) BY <1>5 DEF StartJob
<1>6. CASE MediaFails(t) BY <1>6 DEF MediaFails
<1>7. CASE CheckCancelled(t) BY <1>7 DEF CheckCancelled
<1>8. CASE FinishMedia(t) BY <1>8 DEF FinishMedia
<1>9. CASE EndCancelled(t) BY <1>9 DEF EndCancelled
<1>10. CASE LaunchFails(t) BY <1>10 DEF LaunchFails
<1>11. CASE Launch(t) BY <1>11 DEF Launch
<1>12. CASE StdinFails(t) BY <1>12 DEF StdinFails
<1>13. CASE Register(t) BY <1>13 DEF Register
<1>14. CASE Eof(t) BY <1>14 DEF Eof
<1>15. CASE Reap(t) BY <1>15 DEF Reap
<1>16. CASE Unlist(t) BY <1>16 DEF Unlist
<1>17. CASE Unmap(t) BY <1>17 DEF Unmap
<1>18. CASE Emit(t) BY <1>18 DEF Emit
<1>19. CASE CliExits(t) BY <1>19 DEF CliExits
<1>20. CASE SurvivorExits(t) BY <1>20 DEF SurvivorExits
<1>21. CASE Escalate(t) BY <1>21 DEF Escalate
<1>22. CASE Garble(t) BY <1>22 DEF Garble
<1>. QED BY <1>1, <1>2, <1>3, <1>4, <1>5, <1>6, <1>7, <1>8, <1>9, <1>10, <1>11, <1>12, <1>13, <1>14, <1>15, <1>16, <1>17, <1>18, <1>19, <1>20, <1>21, <1>22 DEF ThreadStep

(* So does what an interrupt command does.  A job it takes from the registry  *)
(* is the one its conversation's turn began.                                  *)
LEMMA CommandStep ==
  ASSUME NEW c \in Conversation, BaseInv, BeginInterrupt(c) \/ InterruptStep(c)
  PROVE  BaseInv'
<1> USE NoTurnAssumption, OfAssumption, RogueAssumption
    DEF BaseInv, TypeOK, PhaseInv, HandleWhileRead, JobBelongsToPreparation, PreparationIsStoppable,
        InterruptStaysInConversation,
        MediaInv, MappingInv, GateInv,
        Live, Phase, Goto, Unmapped, JobFinished, GateLocked, ChildLocked,
        Return, Command, command, turnVars, registry, media, interruption, gate, vars
<1>1. CASE BeginInterrupt(c) BY <1>1 DEF BeginInterrupt
<1>2. CASE CancelJob(c)
  <2>1. intrTurn[c] \in Turn BY <1>2 DEF CancelJob
  <2>2. CASE job[c] = intrTurn[c]
    <3>1. job' \in [Conversation -> Turn \cup {NoTurn}] BY <1>2, <2>2 DEF CancelJob
    <3>2. Command(c, "flag", intrTurn[c]) BY <1>2, <2>2 DEF CancelJob
    <3>3. TypeOK' BY <1>2, <2>1, <3>1, <3>2 DEF CancelJob
    <3>. QED BY <1>2, <2>1, <2>2, <3>3 DEF CancelJob
  <2>3. CASE job[c] # intrTurn[c]
    <3>1. UNCHANGED job /\ Command(c, "mapping", NoTurn) BY <1>2, <2>3 DEF CancelJob
    <3>2. UNCHANGED <<turnVars, registry, media, killer, gate>> BY <1>2, <3>1 DEF CancelJob
    <3>3. intrAt[c] = "cancel" BY <1>2 DEF CancelJob
    <3>4. TypeOK' BY <3>1, <3>2
    <3>. QED BY <3>1, <3>2, <3>3, <3>4, <2>1
  <2>. QED BY <2>2, <2>3
<1>3. CASE RaiseFlag(c)
  <2>1. intrTurn[c] \in Turn BY <1>3 DEF RaiseFlag
  <2>2. CASE Command(c, "mapping", NoTurn)
    <3>1. TypeOK' BY <1>3, <2>1, <2>2 DEF RaiseFlag
    <3>. QED BY <1>3, <2>1, <2>2, <3>1 DEF RaiseFlag
  <2>3. CASE Return(c)
    <3>1. TypeOK' BY <1>3, <2>1, <2>3 DEF RaiseFlag
    <3>. QED BY <1>3, <2>1, <2>3, <3>1 DEF RaiseFlag
  <2>. QED BY <1>3, <2>2, <2>3 DEF RaiseFlag
<1>4. CASE LookupTurn(c) BY <1>4 DEF LookupTurn
<1>5. CASE LookupChild(c) BY <1>5 DEF LookupChild
<1>6. CASE Signal(c) BY <1>6 DEF Signal
<1>. QED BY <1>1, <1>2, <1>3, <1>4, <1>5, <1>6 DEF InterruptStep

(* And what the installer does.                                               *)
LEMMA InstallerStep ==
  ASSUME BaseInv, InstallStep
  PROVE  BaseInv'
<1> USE NoTurnAssumption, OfAssumption, RogueAssumption
    DEF BaseInv, TypeOK, PhaseInv, HandleWhileRead, JobBelongsToPreparation, PreparationIsStoppable,
        InterruptStaysInConversation,
        MediaInv, MappingInv, GateInv,
        Live, Phase, Goto, Unmapped, JobFinished, GateLocked, ChildLocked,
        Return, Command, command, turnVars, registry, media, interruption, gate, vars
<1>1. CASE BeginInstall BY <1>1 DEF BeginInstall
<1>2. CASE CountChildren BY <1>2 DEF CountChildren
<1>3. CASE CountConversations BY <1>3 DEF CountConversations
<1>4. CASE InstallFails
  <2>1. UNCHANGED <<turnVars, registry, media, interruption, counted>> BY <1>4 DEF InstallFails
  <2>2. install' = "idle" /\ installing' = FALSE BY <1>4 DEF InstallFails
  <2>. QED BY <2>1, <2>2
<1>5. CASE InstallSucceeds BY <1>5 DEF InstallSucceeds
<1>. QED BY <1>1, <1>2, <1>3, <1>4, <1>5 DEF InstallStep

(* The newest turn is mapped to its conversation while it is at work, and no  *)
(* installation is under way beside it.                                       *)
LEMMA ExclusionStep ==
  ASSUME IndInv, Next, BaseInv'
  PROVE  (LiveTurnIsMapped /\ InstallExcludesTurns)'
<1> USE NoTurnAssumption, OfAssumption, RogueAssumption
    DEF IndInv, BaseInv, TypeOK, PhaseInv, GateInv, MappingInv, LiveTurnIsMapped, InstallExcludesTurns,
        Live, Phase, Goto, Unmapped, JobFinished, GateLocked, ChildLocked,
        Return, Command, command, turnVars, registry, media, interruption, gate, vars
<1>1. ASSUME NEW t \in Turn, SendTurn(t) PROVE (LiveTurnIsMapped /\ InstallExcludesTurns)'
  BY <1>1 DEF SendTurn
<1>2. ASSUME NEW t \in Turn,
             \/ SendRefused(t) \/ ThreadStep(t) \/ CliExits(t) \/ SurvivorExits(t) \/ Escalate(t) \/ Garble(t)
      PROVE  (LiveTurnIsMapped /\ InstallExcludesTurns)'
  <2>1. CASE SendRefused(t) BY <2>1 DEF SendRefused
  <2>2. CASE TakeBack(t) BY <2>2 DEF TakeBack
  <2>3. CASE SkipMedia(t) BY <2>3 DEF SkipMedia
  <2>4. CASE StartJob(t) BY <2>4 DEF StartJob
  <2>5. CASE MediaFails(t) BY <2>5 DEF MediaFails
  <2>6. CASE CheckCancelled(t) BY <2>6 DEF CheckCancelled
  <2>7. CASE FinishMedia(t) BY <2>7 DEF FinishMedia
  <2>8. CASE EndCancelled(t) BY <2>8 DEF EndCancelled
  <2>9. CASE LaunchFails(t) BY <2>9 DEF LaunchFails
  <2>10. CASE Launch(t) BY <2>10 DEF Launch
  <2>11. CASE StdinFails(t) BY <2>11 DEF StdinFails
  <2>12. CASE Register(t) BY <2>12 DEF Register
  <2>13. CASE Eof(t) BY <2>13 DEF Eof
  <2>14. CASE Reap(t) BY <2>14 DEF Reap
  <2>15. CASE Unlist(t) BY <2>15 DEF Unlist
  <2>16. CASE Unmap(t) BY <2>16 DEF Unmap
  <2>17. CASE Emit(t) BY <2>17 DEF Emit
  <2>18. CASE CliExits(t) BY <2>18 DEF CliExits
  <2>19. CASE SurvivorExits(t) BY <2>19 DEF SurvivorExits
  <2>20. CASE Escalate(t) BY <2>20 DEF Escalate
  <2>21. CASE Garble(t) BY <2>21 DEF Garble
  <2>. QED BY <1>2, <2>1, <2>2, <2>3, <2>4, <2>5, <2>6, <2>7, <2>8, <2>9, <2>10, <2>11, <2>12, <2>13, <2>14, <2>15, <2>16, <2>17, <2>18, <2>19, <2>20, <2>21 DEF ThreadStep
<1>3. ASSUME NEW c \in Conversation, BeginInterrupt(c) \/ InterruptStep(c)
      PROVE  (LiveTurnIsMapped /\ InstallExcludesTurns)'
  BY <1>3 DEF BeginInterrupt, InterruptStep, CancelJob, RaiseFlag, LookupTurn, LookupChild, Signal
<1>4. CASE InstallStep
  <2>1. LiveTurnIsMapped'
    BY <1>4 DEF InstallStep, BeginInstall, CountChildren, CountConversations, InstallFails,
                InstallSucceeds
  <2>2. CASE BeginInstall \/ CountChildren \/ InstallFails \/ InstallSucceeds
    BY <2>1, <2>2 DEF BeginInstall, CountChildren, InstallFails, InstallSucceeds
  <2>3. CASE CountConversations
    <3>1. UNCHANGED <<turnVars, registry>> BY <2>3 DEF CountConversations
    <3>2. CASE \A c \in Conversation : byConversation[c] = NoTurn
      <4>1. \A t \in Turn : Live(t) => t \in overtaken BY <3>2
      <4>. QED BY <2>1, <3>1, <4>1
    <3>3. CASE \E c \in Conversation : byConversation[c] # NoTurn
      <4>1. installing' = installing BY <2>3, <3>3 DEF CountConversations
      <4>. QED BY <2>1, <3>1, <4>1
    <3>. QED BY <3>2, <3>3
  <2>. QED BY <1>4, <2>2, <2>3 DEF InstallStep
<1>. QED BY <1>1, <1>2, <1>3, <1>4 DEF Next

(* Every step preserves the invariant but for the newest turn's mapping.      *)
LEMMA BaseStep == BaseInv /\ [Next]_vars => BaseInv'
<1> SUFFICES ASSUME BaseInv, [Next]_vars PROVE BaseInv' OBVIOUS
<1>1. ASSUME NEW t \in Turn,
             \/ SendTurn(t) \/ SendRefused(t) \/ ThreadStep(t) \/ CliExits(t)
             \/ SurvivorExits(t) \/ Escalate(t) \/ Garble(t)
      PROVE  BaseInv'
  BY <1>1, TurnStep
<1>2. ASSUME NEW c \in Conversation, BeginInterrupt(c) \/ InterruptStep(c) PROVE BaseInv'
  BY <1>2, CommandStep
<1>3. CASE InstallStep BY <1>3, InstallerStep
<1>4. CASE UNCHANGED vars
  BY <1>4 DEF BaseInv, TypeOK, PhaseInv, HandleWhileRead, JobBelongsToPreparation, PreparationIsStoppable,
        InterruptStaysInConversation,
              MediaInv, MappingInv, GateInv,
              Live, Phase, Goto, Unmapped, JobFinished, GateLocked, ChildLocked,
              Return, Command, command, turnVars, registry, media, interruption, gate, vars
<1>. QED BY <1>1, <1>2, <1>3, <1>4 DEF Next

(* The whole invariant holds in every reachable state, however turns overlap. *)
THEOREM TurnInvariance == Spec => []IndInv
<1>1. Init => IndInv
  BY TurnInit DEF Init, IndInv, LiveTurnIsMapped, InstallExcludesTurns, Live
<1>2. IndInv /\ [Next]_vars => IndInv'
  <2> SUFFICES ASSUME IndInv, [Next]_vars PROVE IndInv' OBVIOUS
  <2>1. BaseInv' BY BaseStep DEF IndInv
  <2>2. CASE Next BY <2>1, <2>2, ExclusionStep DEF IndInv
  <2>3. CASE UNCHANGED vars
    BY <2>1, <2>3 DEF IndInv, LiveTurnIsMapped, InstallExcludesTurns, Live, vars, turnVars, registry, gate
  <2>. QED BY <2>2, <2>3
<1>. QED BY <1>1, <1>2, PTL DEF Spec

(* Every variable of the turn service keeps its type.                         *)
THEOREM TurnTypes == Spec => []TypeOK
<1>1. IndInv => TypeOK BY DEF IndInv, BaseInv
<1>. QED BY <1>1, TurnInvariance, PTL

(* The handle of a CLI is there exactly while its output is read.             *)
THEOREM HandleSafe == Spec => []HandleWhileRead
<1>1. IndInv => HandleWhileRead BY DEF IndInv, BaseInv
<1>. QED BY <1>1, TurnInvariance, PTL

(* An interrupt holds only turns and jobs of its own conversation.            *)
THEOREM InterruptSafe == Spec => []InterruptStaysInConversation
<1>1. IndInv => InterruptStaysInConversation BY DEF IndInv, BaseInv
<1>. QED BY <1>1, TurnInvariance, PTL

(* No registered job outlives the preparation it belongs to.                  *)
THEOREM JobSafe == Spec => []JobBelongsToPreparation
<1>1. IndInv => JobBelongsToPreparation BY DEF IndInv, BaseInv
<1>. QED BY <1>1, TurnInvariance, PTL

(* A mapping is removed only by the turn it names and when that turn ends.    *)
THEOREM MappingSafe == Spec => MappingRemovedByItsTurn
<1>1. ASSUME BaseInv, [Next]_vars, NEW c \in Conversation,
             byConversation[c] # NoTurn, byConversation'[c] = NoTurn
      PROVE  phase'[byConversation[c]] \in {"unmapped", "over"}
  <2> USE NoTurnAssumption, OfAssumption
      DEF BaseInv, TypeOK, MappingInv, Unmapped, Goto, registry, turnVars, vars
  <2>1. ASSUME NEW t \in Turn, TakeBack(t) \/ EndCancelled(t) \/ Unmap(t)
        PROVE  phase'[byConversation[c]] \in {"unmapped", "over"}
    BY <1>1, <2>1 DEF TakeBack, EndCancelled, Unmap
  <2>2. ASSUME NEW t \in Turn, SendTurn(t) PROVE FALSE BY <1>1, <2>2 DEF SendTurn
  <2>3. ASSUME NEW t \in Turn,
               \/ SendRefused(t) \/ SkipMedia(t) \/ StartJob(t) \/ MediaFails(t) \/ CheckCancelled(t)
               \/ FinishMedia(t) \/ LaunchFails(t) \/ Launch(t) \/ StdinFails(t) \/ Register(t)
               \/ Eof(t) \/ Reap(t) \/ Unlist(t) \/ Emit(t) \/ CliExits(t)
               \/ SurvivorExits(t) \/ Escalate(t) \/ Garble(t)
        PROVE  byConversation' = byConversation
    BY <2>3 DEF SendRefused, SkipMedia, StartJob, MediaFails, CheckCancelled, FinishMedia,
                LaunchFails, Launch, StdinFails, Register, Eof, Reap, Unlist, Emit, CliExits,
                SurvivorExits, Escalate, Garble
  <2>4. ASSUME NEW d \in Conversation, BeginInterrupt(d) \/ InterruptStep(d)
        PROVE  byConversation' = byConversation
    BY <2>4 DEF BeginInterrupt, InterruptStep, CancelJob, RaiseFlag, LookupTurn, LookupChild, Signal
  <2>5. InstallStep \/ UNCHANGED vars => byConversation' = byConversation
    BY DEF InstallStep, BeginInstall, CountChildren, CountConversations, InstallFails,
           InstallSucceeds
  <2>. QED BY <1>1, <2>1, <2>2, <2>3, <2>4, <2>5 DEF Next, ThreadStep
<1>2. IndInv /\ [Next]_vars =>
        [\A c \in Conversation : byConversation[c] # NoTurn /\ byConversation'[c] = NoTurn =>
           phase'[byConversation[c]] \in {"unmapped", "over"}]_vars
  BY <1>1 DEF IndInv
<1>. QED BY <1>2, TurnInvariance, PTL DEF Spec, MappingRemovedByItsTurn

(* While an update is installed or waits for the restart, only a turn whose   *)
(* mapping a newer one took over can be at work.                              *)
THEOREM InstallSafe == Spec => []InstallExcludesTurns
<1>1. IndInv => InstallExcludesTurns BY DEF IndInv
<1>. QED BY <1>1, TurnInvariance, PTL

(* The newest turn of a conversation, while at work, is the one an interrupt  *)
(* finds.                                                                     *)
THEOREM TurnReachable == Spec => []LiveTurnIsMapped
<1>1. IndInv => LiveTurnIsMapped BY DEF IndInv
<1>. QED BY <1>1, TurnInvariance, PTL

(* A turn at its media is found by an interrupt until one has taken its job.  *)
THEOREM PreparationSafe == Spec => []PreparationIsStoppable
<1>1. IndInv => PreparationIsStoppable BY DEF IndInv, BaseInv
<1>. QED BY <1>1, TurnInvariance, PTL

(* A step of the service is a step of the gate, or changes nothing the gate    *)
(* shows: a turn begins and ends once, and an update closes the gate only     *)
(* between turns.                                                            *)
LEMMA GateStep ==
  ASSUME IndInv, IndInv', [Next]_vars
  PROVE  [Gate!Next]_<<[t \in Turn |-> Status(t)], installing>>
<1> DEFINE st == [t \in Turn |-> Status(t)]
<1> USE DEF IndInv, BaseInv, TypeOK, Phase, Status, Live, Goto, Gate!Next, Gate!Begin, Gate!Refuse,
            Gate!End, Gate!Close, Gate!Reopen
<1>1. ASSUME UNCHANGED <<phase, overtaken, installing>> PROVE UNCHANGED <<st, installing>> BY <1>1
<1>2. ASSUME NEW t \in Turn, NEW p \in Phase, Goto(t, p), UNCHANGED <<overtaken, installing>>,
             p \in {"new", "unmapped", "over"} <=> ~Live(t), phase[t] # "new", p # "new"
      PROVE  UNCHANGED <<st, installing>>
  BY <1>2
<1>3. ASSUME NEW t \in Turn, NEW p \in {"unmapped", "over"}, Goto(t, p),
             UNCHANGED <<overtaken, installing>>,
             Live(t)
      PROVE  Gate!Next
  <2>1. st[t] \in {"live", "overtaken"} BY <1>3
  <2>2. \A u \in Turn : Status(u)' = IF u = t THEN "over" ELSE Status(u) BY <1>3
  <2>3. st' = [st EXCEPT ![t] = "over"] BY <2>2
  <2>4. Gate!End(t) BY <1>3, <2>1, <2>3
  <2>. QED BY <2>4
<1>4. ASSUME NEW t \in Turn, ThreadStep(t) PROVE Gate!Next \/ UNCHANGED <<st, installing>>
  <2> USE DEF gate, registry
  <2>1. CASE TakeBack(t) BY <1>3, <2>1 DEF TakeBack
  <2>2. CASE EndCancelled(t) BY <1>3, <2>2 DEF EndCancelled
  <2>3. CASE LaunchFails(t) BY <1>3, <2>3 DEF LaunchFails
  <2>4. CASE StdinFails(t) BY <1>3, <2>4 DEF StdinFails
  <2>5. CASE Unmap(t) BY <1>3, <2>5 DEF Unmap
  <2>6. CASE SkipMedia(t) BY <1>2, <2>6 DEF SkipMedia
  <2>7. CASE StartJob(t) BY <1>2, <2>7 DEF StartJob
  <2>8. CASE MediaFails(t) BY <1>2, <2>8 DEF MediaFails
  <2>9. CASE CheckCancelled(t) BY <1>2, <2>9 DEF CheckCancelled
  <2>10. CASE FinishMedia(t) BY <1>2, <2>10 DEF FinishMedia
  <2>11. CASE Launch(t) BY <1>2, <2>11 DEF Launch
  <2>12. CASE Register(t) BY <1>2, <2>12 DEF Register
  <2>13. CASE Eof(t) BY <1>2, <2>13 DEF Eof
  <2>14. CASE Reap(t) BY <1>2, <2>14 DEF Reap
  <2>15. CASE Unlist(t) BY <1>2, <2>15 DEF Unlist
  <2>16. CASE Emit(t) BY <1>2, <2>16 DEF Emit
  <2>. QED BY <1>4, <2>1, <2>2, <2>3, <2>4, <2>5, <2>6, <2>7, <2>8, <2>9, <2>10, <2>11, <2>12, <2>13, <2>14, <2>15, <2>16 DEF ThreadStep
<1>5. ASSUME NEW t \in Turn, SendTurn(t) PROVE Gate!Next
  <2>1. PICK p \in {"begun", "failed"} : Goto(t, p) /\ phase[t] = "new" /\ ~installing /\ installing' = installing
    BY <1>5 DEF SendTurn, gate
  <2>2. overtaken' = overtaken \cup ({byConversation[Of[t]]} \ {NoTurn}) BY <1>5 DEF SendTurn
  <2>3. st[t] = "new" BY <2>1
  <2>4. Status(t)' = "live"
    <3>1. phase'[t] \in {"begun", "failed"} BY <2>1
    <3>2. Of[t] \in Conversation BY OfAssumption
    <3>3. t \notin overtaken /\ t # byConversation[Of[t]]
      BY <2>1, <3>2, NoTurnAssumption DEF MappingInv
    <3>4. t \notin overtaken' BY <2>2, <3>3
    <3>. QED BY <3>1, <3>4
  <2>5. ASSUME NEW u \in Turn, u # t PROVE Status(u)' = Gate!Overtake(t, u)
    <3>1. phase'[u] = phase[u] BY <2>1, <2>5
    <3>2. u \in overtaken' <=> u \in overtaken \/ u = byConversation[Of[t]]
      BY <2>2, NoTurnAssumption
    <3>3. CASE u = byConversation[Of[t]]
      <4>1. Of[t] \in Conversation BY OfAssumption
      <4>2. Of[u] = Of[t] /\ phase[u] # "new" BY <3>3, <4>1, NoTurnAssumption DEF MappingInv
      <4>3. Status(u)' = IF Live(u) THEN "overtaken" ELSE "over" BY <3>1, <3>2, <3>3, <4>2
      <4>4. Status(u) = IF Live(u) THEN (IF u \in overtaken THEN "overtaken" ELSE "live") ELSE "over"
        BY <4>2
      <4>. QED BY <4>2, <4>3, <4>4 DEF Gate!Overtake
    <3>4. CASE u # byConversation[Of[t]]
      BY <3>1, <3>2, <3>4, OfAssumption DEF LiveTurnIsMapped, Gate!Overtake
    <3>. QED BY <3>3, <3>4
  <2>6. st' = [u \in Turn |-> IF u = t THEN "live" ELSE Gate!Overtake(t, u)] BY <2>4, <2>5
  <2>7. Gate!Begin(t) BY <2>1, <2>3, <2>6
  <2>. QED BY <2>7
<1>6. ASSUME NEW t \in Turn, SendRefused(t) PROVE Gate!Next
  <2>1. Goto(t, "over") /\ phase[t] = "new" /\ installing /\ UNCHANGED <<overtaken, installing>>
    BY <1>6 DEF SendRefused, registry, gate
  <2>2. st[t] = "new" BY <2>1
  <2>3. \A u \in Turn : Status(u)' = IF u = t THEN "over" ELSE Status(u) BY <2>1
  <2>4. st' = [st EXCEPT ![t] = "over"] BY <2>3
  <2>5. Gate!Refuse(t) BY <2>1, <2>2, <2>4
  <2>. QED BY <2>5
<1>7. ASSUME NEW t \in Turn, CliExits(t) \/ SurvivorExits(t) \/ Escalate(t) \/ Garble(t)
      PROVE  UNCHANGED <<st, installing>>
  BY <1>1, <1>7 DEF CliExits, SurvivorExits, Escalate, Garble, registry, gate
<1>8. ASSUME NEW c \in Conversation, BeginInterrupt(c) \/ InterruptStep(c)
      PROVE  UNCHANGED <<st, installing>>
  BY <1>1, <1>8 DEF BeginInterrupt, InterruptStep, CancelJob, RaiseFlag, LookupTurn, LookupChild,
                   Signal, turnVars, registry, gate
<1>9. CASE InstallStep
  <2>1. UNCHANGED st BY <1>9 DEF InstallStep, BeginInstall, CountChildren, CountConversations,
                                InstallFails, InstallSucceeds, turnVars, registry
  <2>2. CASE CountConversations
    <3>1. CASE installing' = installing BY <2>1, <3>1
    <3>2. CASE installing' = TRUE
      <4>1. \A t \in Turn : Live(t)' => t \in overtaken' BY <3>2 DEF InstallExcludesTurns
      <4>2. \A t \in Turn : st[t] # "live" BY <4>1, <2>1, <2>2 DEF CountConversations, turnVars, registry
      <4>. QED BY <3>2, <4>2, <2>1
    <3>. QED BY <2>2, <3>1, <3>2 DEF CountConversations
  <2>3. CASE InstallFails BY <2>1, <2>3 DEF InstallFails
  <2>4. CASE BeginInstall \/ CountChildren \/ InstallSucceeds
    BY <2>1, <2>4 DEF BeginInstall, CountChildren, InstallSucceeds
  <2>. QED BY <1>9, <2>2, <2>3, <2>4 DEF InstallStep
<1>10. CASE UNCHANGED vars BY <1>1, <1>10 DEF vars, turnVars, registry, gate
<1>. QED BY <1>4, <1>5, <1>6, <1>7, <1>8, <1>9, <1>10 DEF Next

(* The turn service implements the gate it promises.                          *)
THEOREM GateRefinement == Spec => GateSpec
<1>1. Init => Gate!Init BY DEF Init, Gate!Init, Status, Live
<1>. QED BY <1>1, TurnInvariance, GateStep, PTL DEF Spec, GateSpec, Gate!Spec


=============================================================================
