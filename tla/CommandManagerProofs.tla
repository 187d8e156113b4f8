------------------------ MODULE CommandManagerProofs ------------------------
(* Theorems about CommandManager for every number of commands, queues,      *)
(* callers and pollers and every queue size.                                *)
EXTENDS CommandManager, SequenceTheorems, TLAPS

(* What TypeOK needs to be inductive: the worker holds a command exactly    *)
(* while it executes one, and a command that names a queue names a real one. *)
Busy == {"run", "unwind", "store", "check", "emplace"}
WorkerInv ==
  /\ wpc \in Busy => wcmd \in 1..command_counter
  /\ work_queue \subseteq 1..command_counter
  /\ \A c \in Cmds : c \in work_queue /\ cmd[c].type # CommandType.SHUTDOWN =>
                       cmd[c].queue_id \in Queues
  /\ wpc \in Busy => cmd[wcmd].queue_id \in Queues
TypeInv == TypeOK /\ WorkerInv

(* The initial state of the command manager has the right types. *)
LEMMA TypeInit == Init => TypeInv
<1> SUFFICES ASSUME Init PROVE TypeInv
  OBVIOUS
<1> USE ConstantsAssumption DEF Init, Cmds, NoCmd
<1>1. Blank \in CommandRecords
  BY DEF Blank, HandlerKinds, CommandRecords
<1>2. CmdTypes
  BY <1>1 DEF CmdTypes, ResultCode
<1>3. WorkerTypes
  BY DEF WorkerTypes
<1>4. QueueTypes
  BY DEF QueueTypes
<1>5. GameTypes /\ CallTypes
  BY DEF GameTypes, CallTypes
<1>6. PollTypes
  BY DEF PollTypes
<1>7. HistTypes
  BY DEF HistTypes, Fates
<1>9. crashed \in BOOLEAN
  OBVIOUS
<1>8. WorkerInv
  BY DEF WorkerInv, Busy
<1> QED
  BY <1>2, <1>3, <1>4, <1>5, <1>6, <1>7, <1>8, <1>9 DEF TypeInv, TypeOK

(* Sequence operators keep the type of their elements. *)
LEMMA FrontType ==
  ASSUME NEW S, NEW s \in Seq(S), s # <<>>
  PROVE  /\ Front(s) \in Seq(S)
         /\ Len(Front(s)) = Len(s) - 1
         /\ \A i \in 1..Len(s) - 1 : Front(s)[i] = s[i]
<1>1. PICK n \in Nat : n = Len(s) - 1
  OBVIOUS
<1>2. \A i \in 1..n : s[i] \in S
  BY <1>1
<1>3. /\ SubSeq(s, 1, n) \in Seq(S)
      /\ Len(SubSeq(s, 1, n)) = IF 1 <= n THEN n - 1 + 1 ELSE 0
      /\ \A i \in 1..n - 1 + 1 : SubSeq(s, 1, n)[i] = s[1 + i - 1]
  BY <1>2, SubSeqProperties
<1>4. n - 1 + 1 = n /\ \A i \in 1..n : 1 + i - 1 = i
  OBVIOUS
<1>5. \A i \in 1..n : SubSeq(s, 1, n)[i] = s[i]
  BY <1>3, <1>4
<1>6. Len(SubSeq(s, 1, n)) = n
  BY <1>3, <1>4
<1> QED
  BY <1>1, <1>3, <1>5, <1>6 DEF Front

(* pop_results reverses a list of the same commands. *)
LEMMA ReverseType ==
  ASSUME NEW S, NEW s \in Seq(S)
  PROVE  Reverse(s) \in Seq(S)
<1>1. \A i \in 1..Len(s) : (Len(s) - i) + 1 \in 1..Len(s)
  OBVIOUS
<1> QED
  BY <1>1 DEF Reverse

(* One step per action of Next. *)
LEMMA TypeNext == TypeInv /\ [Next]_vars => TypeInv'
<1> SUFFICES ASSUME TypeInv, [Next]_vars PROVE TypeInv'
  OBVIOUS
<1> USE ConstantsAssumption DEF TypeInv, TypeOK
<1> USE DEF cmdVars, workerVars, queueVars, gameVars, pollVars, callVars, histVars
<1>0. command_counter \in Nat /\ (wpc \in Busy => wcmd \in Cmds)
  BY DEF CmdTypes, WorkerInv, Cmds
<1>1. ASSUME NEW q \in Queues, NEW k \in Kinds \ {Unknown}, NEW d \in Discards, Submit(q, k, d) PROVE TypeInv'
<2>1. CmdTypes'
  BY <1>1 DEF Submit, Make, CountCommand, CmdTypes, Unknown, CommandRecords, HandlerKinds, CommandType, ResultCode, Cmds, NoCmd
<2>2. WorkerTypes'
  BY <1>1 DEF Submit, Make, CountCommand, WorkerTypes, CmdTypes, Cmds, NoCmd
<2>3. QueueTypes'
  BY <1>1 DEF Submit, Make, CountCommand, QueueTypes, Cmds, NoCmd
<2>4. GameTypes'
  BY <1>1 DEF Submit, Make, CountCommand, GameTypes, Cmds, NoCmd
<2>5. PollTypes'
  BY <1>1 DEF Submit, Make, CountCommand, PollTypes, Cmds, NoCmd
<2>6. CallTypes'
  BY <1>1 DEF Submit, Make, CountCommand, CallTypes, CmdTypes, Cmds, NoCmd
<2>7. HistTypes'
  BY <1>1 DEF Submit, Make, CountCommand, HistTypes, Fates, Lost, Cmds, NoCmd
<2>8. WorkerInv'
  BY <1>1 DEF Submit, Make, CountCommand, WorkerInv, Busy, CommandType, CmdTypes, CommandRecords, WorkerTypes, Cmds, NoCmd
<2>9. crashed' \in BOOLEAN
  BY <1>1 DEF Submit, Make, CountCommand
<2> QED
  BY <2>1, <2>2, <2>3, <2>4, <2>5, <2>6, <2>7, <2>8, <2>9
<1>2. ASSUME SubmitUnknown PROVE TypeInv'
  BY <1>2 DEF SubmitUnknown, CmdTypes, WorkerTypes, QueueTypes, GameTypes, PollTypes, CallTypes, HistTypes, WorkerInv, Busy, CommandRecords, CommandType, HandlerKinds, Unknown, Cmds, NoCmd, ResultCode, Fates, Lost
<1>3. ASSUME NEW k \in Callers, NEW t \in {CommandType.CREATE_QUEUE, CommandType.DESTROY_QUEUE}, NEW q \in Queues, ExecuteBuiltin(k, t, q) PROVE TypeInv'
<2>1. CmdTypes'
  BY <1>3 DEF ExecuteBuiltin, Make, CountCommand, CmdTypes, Unknown, CommandRecords, HandlerKinds, CommandType, ResultCode, Cmds, NoCmd
<2>2. WorkerTypes'
  BY <1>3 DEF ExecuteBuiltin, Make, CountCommand, WorkerTypes, CmdTypes, Cmds, NoCmd
<2>3. QueueTypes'
  BY <1>3 DEF ExecuteBuiltin, Make, CountCommand, QueueTypes, Cmds, NoCmd
<2>4. GameTypes'
  BY <1>3 DEF ExecuteBuiltin, Make, CountCommand, GameTypes, Cmds, NoCmd
<2>5. PollTypes'
  BY <1>3 DEF ExecuteBuiltin, Make, CountCommand, PollTypes, Cmds, NoCmd
<2>6. CallTypes'
  BY <1>3 DEF ExecuteBuiltin, Make, CountCommand, CallTypes, CmdTypes, Cmds, NoCmd
<2>7. HistTypes'
  BY <1>3 DEF ExecuteBuiltin, Make, CountCommand, HistTypes, Fates, Lost, Cmds, NoCmd
<2>8. WorkerInv'
  <3> DEFINE n == command_counter + 1
  <3>1. /\ n \in Cmds /\ n # command_counter /\ command_counter' = n
        /\ work_queue' = work_queue \cup {n} /\ UNCHANGED <<wpc, wcmd>>
    BY <1>0, <1>3 DEF ExecuteBuiltin, Make, CountCommand, Cmds
  <3>2. cmd'[n].queue_id = q /\ \A c \in Cmds : c # n => cmd'[c] = cmd[c]
    BY <1>3, <3>1 DEF ExecuteBuiltin, Make, CmdTypes
  <3>3. wpc \in Busy => wcmd # n /\ wcmd \in 1..n
    BY <1>0 DEF WorkerInv
  <3>4. n \in Nat /\ command_counter \in Nat
    BY <3>1 DEF Cmds, CmdTypes
  <3>5. work_queue' \subseteq 1..n
    <4>1. work_queue \subseteq 1..command_counter
      BY DEF WorkerInv
    <4>2. 1..command_counter \subseteq 1..n /\ n \in 1..n
      BY <3>4
    <4> QED
      BY <3>1, <4>1, <4>2
  <3>6. \A c \in Cmds : c \in work_queue' /\ cmd'[c].type # CommandType.SHUTDOWN =>
                          cmd'[c].queue_id \in Queues
    BY <1>0, <3>1, <3>2 DEF WorkerInv
  <3>7. wpc' \in Busy => wcmd' \in 1..n /\ wcmd' # n
    BY <3>1, <3>3
  <3>8. wpc' \in Busy => cmd'[wcmd'].queue_id \in Queues
    <4> SUFFICES ASSUME wpc' \in Busy PROVE cmd'[wcmd'].queue_id \in Queues
      OBVIOUS
    <4>1. wpc \in Busy /\ wcmd' = wcmd
      BY <3>1
    <4>2. wcmd \in Cmds
      BY <3>1, <3>3, <3>4, <4>1 DEF Cmds
    <4>3. cmd'[wcmd] = cmd[wcmd]
      BY <3>2, <3>3, <4>1, <4>2
    <4> QED
      BY <1>0, <4>1, <4>3 DEF WorkerInv
  <3> QED
    BY <3>1, <3>5, <3>6, <3>7, <3>8 DEF WorkerInv
<2>9. crashed' \in BOOLEAN
  BY <1>3 DEF ExecuteBuiltin, Make, CountCommand
<2> QED
  BY <2>1, <2>2, <2>3, <2>4, <2>5, <2>6, <2>7, <2>8, <2>9
<1>4. ASSUME NEW k \in Callers, BuiltinReturns(k) PROVE TypeInv'
  BY <1>4 DEF BuiltinReturns, CmdTypes, WorkerTypes, QueueTypes, GameTypes, PollTypes, CallTypes, HistTypes, WorkerInv, Busy, CommandRecords, CommandType, HandlerKinds, Unknown, Cmds, NoCmd, ResultCode, Fates, Lost
<1>5. ASSUME Shutdown PROVE TypeInv'
<2>1. CmdTypes'
  BY <1>5 DEF Shutdown, Make, CountCommand, CmdTypes, CommandRecords, HandlerKinds, CommandType, ResultCode, Cmds, NoCmd
<2>2. WorkerTypes'
  BY <1>5 DEF Shutdown, Make, CountCommand, WorkerTypes, CmdTypes, Cmds, NoCmd
<2>3. QueueTypes'
  BY <1>5 DEF Shutdown, Make, CountCommand, QueueTypes, Cmds, NoCmd
<2>4. GameTypes'
  BY <1>5 DEF Shutdown, Make, CountCommand, GameTypes, Cmds, NoCmd
<2>5. PollTypes'
  BY <1>5 DEF Shutdown, Make, CountCommand, PollTypes, Cmds, NoCmd
<2>6. CallTypes'
  BY <1>5 DEF Shutdown, Make, CountCommand, CallTypes, Cmds, NoCmd
<2>7. HistTypes'
  BY <1>5 DEF Shutdown, Make, CountCommand, HistTypes, Fates, Lost, Cmds, NoCmd
<2>8. WorkerInv'
  BY <1>5 DEF Shutdown, Make, CountCommand, WorkerInv, Busy, CommandType, CmdTypes, CommandRecords, WorkerTypes, Cmds, NoCmd
<2>9. crashed' \in BOOLEAN
  BY <1>5 DEF Shutdown, Make, CountCommand
<2> QED
  BY <2>1, <2>2, <2>3, <2>4, <2>5, <2>6, <2>7, <2>8, <2>9
<1>6. ASSUME ShutdownJoins PROVE TypeInv'
  BY <1>6 DEF ShutdownJoins, CmdTypes, WorkerTypes, QueueTypes, GameTypes, PollTypes, CallTypes, HistTypes, WorkerInv, Busy, CommandRecords, CommandType, HandlerKinds, Unknown, Cmds, NoCmd, ResultCode, Fates, Lost
<1>7. ASSUME NEW c \in Cmds, WorkerCreatesQueue(c) PROVE TypeInv'
<2>1. CmdTypes'
  BY <1>7 DEF WorkerCreatesQueue, WorkerTakes, BuiltinDone, IsTop, CmdTypes, CommandRecords, HandlerKinds, CommandType, ResultCode, Cmds, NoCmd
<2>2. WorkerTypes'
  BY <1>7 DEF WorkerCreatesQueue, WorkerTakes, BuiltinDone, IsTop, WorkerTypes, Cmds, NoCmd
<2>3. QueueTypes'
  BY <1>7 DEF WorkerCreatesQueue, WorkerTakes, IsTop, QueueTypes, WorkerInv, CommandType
<2>4. GameTypes'
  BY <1>7 DEF WorkerCreatesQueue, WorkerTakes, BuiltinDone, IsTop, GameTypes, Cmds, NoCmd
<2>5. PollTypes'
  BY <1>7 DEF WorkerCreatesQueue, WorkerTakes, BuiltinDone, IsTop, PollTypes, Cmds, NoCmd
<2>6. CallTypes'
  BY <1>7 DEF WorkerCreatesQueue, WorkerTakes, BuiltinDone, IsTop, CallTypes, Cmds, NoCmd
<2>7. HistTypes'
  BY <1>7 DEF WorkerCreatesQueue, WorkerTakes, BuiltinDone, IsTop, HistTypes, Fates, Lost, Cmds, NoCmd
<2>8. WorkerInv'
  BY <1>7 DEF WorkerCreatesQueue, WorkerTakes, BuiltinDone, IsTop, WorkerInv, Busy, CommandType, CmdTypes, CommandRecords, WorkerTypes, Cmds, NoCmd
<2>9. crashed' \in BOOLEAN
  BY <1>7 DEF WorkerCreatesQueue, WorkerTakes, BuiltinDone, IsTop
<2> QED
  BY <2>1, <2>2, <2>3, <2>4, <2>5, <2>6, <2>7, <2>8, <2>9
<1>8. ASSUME NEW c \in Cmds, WorkerDestroysQueue(c) PROVE TypeInv'
<2>1. CmdTypes'
  BY <1>8 DEF WorkerDestroysQueue, WorkerTakes, BuiltinDone, IsTop, CmdTypes, CommandRecords, HandlerKinds, CommandType, ResultCode, Cmds, NoCmd
<2>2. WorkerTypes'
  BY <1>8 DEF WorkerDestroysQueue, WorkerTakes, BuiltinDone, IsTop, WorkerTypes, Cmds, NoCmd
<2>3. QueueTypes'
  <3> DEFINE q == cmd[c].queue_id
  <3>1. q \in Queues
    BY <1>8 DEF WorkerDestroysQueue, WorkerTakes, IsTop, WorkerInv, CommandType
  <3>2. gen' \in [Queues -> Nat] /\ results' \in [Queues -> Seq(Cmds)]
    BY <1>8, <3>1 DEF WorkerDestroysQueue, QueueTypes
  <3> QED
    BY <1>8, <3>2 DEF WorkerDestroysQueue, WorkerTakes, QueueTypes
<2>4. GameTypes'
  BY <1>8 DEF WorkerDestroysQueue, WorkerTakes, BuiltinDone, IsTop, GameTypes, Cmds, NoCmd
<2>5. PollTypes'
  BY <1>8 DEF WorkerDestroysQueue, WorkerTakes, BuiltinDone, IsTop, PollTypes, Cmds, NoCmd
<2>6. CallTypes'
  BY <1>8 DEF WorkerDestroysQueue, WorkerTakes, BuiltinDone, IsTop, CallTypes, Cmds, NoCmd
<2>7. HistTypes'
  BY <1>8 DEF WorkerDestroysQueue, WorkerTakes, BuiltinDone, IsTop, HistTypes, Fates, Lost, Cmds, NoCmd
<2>8. WorkerInv'
  BY <1>8 DEF WorkerDestroysQueue, WorkerTakes, BuiltinDone, IsTop, WorkerInv, Busy, CommandType, CmdTypes, CommandRecords, WorkerTypes, Cmds, NoCmd
<2>9. crashed' \in BOOLEAN
  BY <1>8 DEF WorkerDestroysQueue, WorkerTakes, BuiltinDone, IsTop
<2> QED
  BY <2>1, <2>2, <2>3, <2>4, <2>5, <2>6, <2>7, <2>8, <2>9
<1>9. ASSUME NEW c \in Cmds, WorkerShutsDown(c) PROVE TypeInv'
  BY <1>9 DEF WorkerShutsDown, WorkerTakes, Inactive, CmdTypes, WorkerTypes, QueueTypes, GameTypes, PollTypes, CallTypes, HistTypes, WorkerInv, Busy, CommandRecords, CommandType, HandlerKinds, Unknown, Cmds, NoCmd, ResultCode, Fates, Lost
<1>10. ASSUME NEW c \in Cmds, WorkerRuns(c) PROVE TypeInv'
<2>1. CmdTypes'
  BY <1>10 DEF WorkerRuns, WorkerTakes, IsTop, CmdTypes, CommandRecords, HandlerKinds, CommandType, ResultCode, Cmds, NoCmd
<2>2. WorkerTypes'
  BY <1>10 DEF WorkerRuns, WorkerTakes, IsTop, WorkerTypes, Cmds, NoCmd
<2>3. QueueTypes'
  BY <1>10 DEF WorkerRuns, WorkerTakes, IsTop, QueueTypes, Cmds, NoCmd
<2>4. GameTypes'
  BY <1>10 DEF WorkerRuns, WorkerTakes, IsTop, GameTypes, Cmds, NoCmd
<2>5. PollTypes'
  BY <1>10 DEF WorkerRuns, WorkerTakes, IsTop, PollTypes, Cmds, NoCmd
<2>6. CallTypes'
  BY <1>10 DEF WorkerRuns, WorkerTakes, IsTop, CallTypes, Cmds, NoCmd
<2>7. HistTypes'
  BY <1>10 DEF WorkerRuns, WorkerTakes, IsTop, HistTypes, Fates, Lost, Cmds, NoCmd
<2>8. WorkerInv'
  BY <1>10 DEF WorkerRuns, WorkerTakes, IsTop, WorkerInv, Busy, CommandType, CmdTypes, CommandRecords, WorkerTypes, Cmds, NoCmd
<2>9. crashed' \in BOOLEAN
  BY <1>10 DEF WorkerRuns, WorkerTakes, IsTop
<2> QED
  BY <2>1, <2>2, <2>3, <2>4, <2>5, <2>6, <2>7, <2>8, <2>9
<1>11. ASSUME HandlerReturns PROVE TypeInv'
  BY <1>11 DEF HandlerReturns, CmdTypes, WorkerTypes, QueueTypes, GameTypes, PollTypes, CallTypes, HistTypes, WorkerInv, Busy, CommandRecords, CommandType, HandlerKinds, Unknown, Cmds, NoCmd, ResultCode, Fates, Lost
<1>12. ASSUME HandlerThrows PROVE TypeInv'
  BY <1>0, <1>12 DEF HandlerThrows, CmdTypes, WorkerTypes, QueueTypes, GameTypes, PollTypes, CallTypes, HistTypes, WorkerInv, Busy, CommandRecords, CommandType, HandlerKinds, Unknown, Cmds, NoCmd, ResultCode, Fates, Lost
<1>13. ASSUME HandlerDefers PROVE TypeInv'
<2>1. CmdTypes'
  BY <1>13 DEF HandlerDefers, CmdTypes, CommandRecords, HandlerKinds, CommandType, ResultCode, Cmds, NoCmd
<2>2. WorkerTypes'
  BY <1>13 DEF HandlerDefers, WorkerTypes, Cmds, NoCmd
<2>3. QueueTypes'
  BY <1>13 DEF HandlerDefers, QueueTypes, Cmds, NoCmd
<2>4. GameTypes'
  BY <1>0, <1>13 DEF HandlerDefers, GameTypes, Busy
<2>5. PollTypes'
  BY <1>13 DEF HandlerDefers, PollTypes, Cmds, NoCmd
<2>6. CallTypes'
  BY <1>13 DEF HandlerDefers, CallTypes, Cmds, NoCmd
<2>7. HistTypes'
  BY <1>13 DEF HandlerDefers, HistTypes, Fates, Lost, Cmds, NoCmd
<2>8. WorkerInv'
  BY <1>13 DEF HandlerDefers, WorkerInv, Busy, CommandType, CmdTypes, CommandRecords, WorkerTypes, Cmds, NoCmd
<2>9. crashed' \in BOOLEAN
  BY <1>13 DEF HandlerDefers
<2> QED
  BY <2>1, <2>2, <2>3, <2>4, <2>5, <2>6, <2>7, <2>8, <2>9
<1>14. ASSUME SaveCommandResult PROVE TypeInv'
  BY <1>14 DEF SaveCommandResult, CmdTypes, WorkerTypes, QueueTypes, GameTypes, PollTypes, CallTypes, HistTypes, WorkerInv, Busy, CommandRecords, CommandType, HandlerKinds, Unknown, Cmds, NoCmd, ResultCode, Fates, Lost
<1>15. ASSUME StoreResultCode PROVE TypeInv'
  BY <1>15 DEF StoreResultCode, CodeOfRun, CmdTypes, WorkerTypes, QueueTypes, GameTypes, PollTypes, CallTypes, HistTypes, WorkerInv, Busy, CommandRecords, CommandType, HandlerKinds, Unknown, Cmds, NoCmd, ResultCode, Fates, Lost
<1>16. ASSUME CheckPending PROVE TypeInv'
<2>1. UNCHANGED <<cmdVars, work_queue, wexc, queues, gen, results, gameVars, pollVars,
                 callVars, crashed, threw, log>>
  BY <1>16 DEF CheckPending
<2>2. wcmd \in Cmds
  BY <1>0, <1>16 DEF CheckPending, Busy
<2>3. pending_commands' \subseteq Cmds
  BY <1>16, <2>2 DEF CheckPending, NotedPending, QueueTypes
<2>4. fate' \in [Cmds -> Fates]
  BY <1>16, <2>2 DEF CheckPending, HistTypes, Fates, Lost
<2>5. WorkerTypes' /\ WorkerInv'
  BY <1>16, <2>1 DEF CheckPending, WorkerTypes, WorkerInv, Busy
<2>6. CmdTypes' /\ GameTypes'
  BY <2>1 DEF CmdTypes, GameTypes
<2>7. QueueTypes' /\ HistTypes'
  BY <2>1, <2>3, <2>4 DEF QueueTypes, HistTypes
<2>8. PollTypes' /\ CallTypes' /\ crashed' \in BOOLEAN
  BY <2>1 DEF PollTypes, CallTypes
<2> QED
  BY <2>5, <2>6, <2>7, <2>8
<1>17. ASSUME EmplaceResult PROVE TypeInv'
<2>1. CmdTypes'
  BY <1>17 DEF EmplaceResult, RingEmplace, RingEvicts, CmdTypes, CommandRecords, HandlerKinds, CommandType, ResultCode, Cmds, NoCmd
<2>2. WorkerTypes'
  BY <1>17 DEF EmplaceResult, RingEmplace, RingEvicts, WorkerTypes, Cmds, NoCmd
<2>3. QueueTypes'
  <3> DEFINE q == cmd[wcmd].queue_id
  <3>1. wcmd \in Cmds /\ results[q] \in Seq(Cmds)
    BY <1>0, <1>17 DEF EmplaceResult, WorkerInv, Busy, QueueTypes
  <3>2. Len(results[q]) >= QueueSize => Tail(results[q]) \in Seq(Cmds)
    BY <3>1
  <3>3. RingEmplace(results[q], wcmd) \in Seq(Cmds)
    BY <3>1, <3>2 DEF RingEmplace, RingEvicts
  <3> QED
    BY <1>17, <3>3 DEF EmplaceResult, QueueTypes
<2>4. GameTypes'
  BY <1>17 DEF EmplaceResult, RingEmplace, RingEvicts, GameTypes, Cmds, NoCmd
<2>5. PollTypes'
  BY <1>17 DEF EmplaceResult, RingEmplace, RingEvicts, PollTypes, Cmds, NoCmd
<2>6. CallTypes'
  BY <1>17 DEF EmplaceResult, RingEmplace, RingEvicts, CallTypes, Cmds, NoCmd
<2>7. HistTypes'
  BY <1>17 DEF EmplaceResult, RingEmplace, RingEvicts, HistTypes, Fates, Lost, Cmds, NoCmd
<2>8. WorkerInv'
  BY <1>17 DEF EmplaceResult, RingEmplace, RingEvicts, WorkerInv, Busy, CommandType, CmdTypes, CommandRecords, WorkerTypes, Cmds, NoCmd
<2>9. crashed' \in BOOLEAN
  BY <1>17 DEF EmplaceResult, RingEmplace, RingEvicts
<2> QED
  BY <2>1, <2>2, <2>3, <2>4, <2>5, <2>6, <2>7, <2>8, <2>9
<1>18. ASSUME EmplaceNoQueue PROVE TypeInv'
  BY <1>18 DEF EmplaceNoQueue, CmdTypes, WorkerTypes, QueueTypes, GameTypes, PollTypes, CallTypes, HistTypes, WorkerInv, Busy, CommandRecords, CommandType, HandlerKinds, Unknown, Cmds, NoCmd, ResultCode, Fates, Lost
<1>19. ASSUME NEW throws \in BOOLEAN, GameExecutes(throws) PROVE TypeInv'
<2>1. CmdTypes'
  BY <1>19 DEF GameExecutes, CmdTypes, CommandRecords, HandlerKinds, CommandType, ResultCode, Cmds, NoCmd
<2>2. WorkerTypes'
  BY <1>19 DEF GameExecutes, WorkerTypes, Cmds, NoCmd
<2>3. QueueTypes'
  BY <1>19 DEF GameExecutes, QueueTypes, Cmds, NoCmd
<2>4. GameTypes'
  BY <1>19 DEF GameExecutes, GameTypes, Cmds, NoCmd
<2>5. PollTypes'
  BY <1>19 DEF GameExecutes, PollTypes, Cmds, NoCmd
<2>6. CallTypes'
  BY <1>19 DEF GameExecutes, CallTypes, Cmds, NoCmd
<2>7. HistTypes'
  BY <1>19 DEF GameExecutes, HistTypes, GameTypes
<2>8. WorkerInv'
  BY <1>19 DEF GameExecutes, WorkerInv, Busy, CommandType, CmdTypes, CommandRecords, WorkerTypes, Cmds, NoCmd
<2>9. crashed' \in BOOLEAN
  BY <1>19 DEF GameExecutes
<2> QED
  BY <2>1, <2>2, <2>3, <2>4, <2>5, <2>6, <2>7, <2>8, <2>9
<1>20. ASSUME GameClearsPending PROVE TypeInv'
  BY <1>20 DEF GameClearsPending, ClearedPending, CmdTypes, WorkerTypes, QueueTypes, GameTypes, PollTypes, CallTypes, HistTypes, WorkerInv, Busy, CommandRecords, CommandType, HandlerKinds, Unknown, Cmds, NoCmd, ResultCode, Fates, Lost
<1>21. ASSUME NEW dies \in BOOLEAN, GameUsesFreed(dies) PROVE TypeInv'
  BY <1>21 DEF GameUsesFreed, CmdTypes, WorkerTypes, QueueTypes, GameTypes, PollTypes, CallTypes, HistTypes, WorkerInv, Busy, CommandRecords, CommandType, HandlerKinds, Unknown, Cmds, NoCmd, ResultCode, Fates, Lost
<1>22. ASSUME NEW p \in Pollers, FlushFinds(p) PROVE TypeInv'
<2>1. UNCHANGED <<cmdVars, workerVars, queueVars, gameVars, callVars, crashed, histVars>>
  BY <1>22 DEF FlushFinds
<2>2. PollTypes'
  BY <1>22 DEF FlushFinds, PollTypes, QueueTypes
<2>5. CmdTypes' /\ WorkerTypes'
  BY <2>1 DEF CmdTypes, WorkerTypes
<2>6. QueueTypes' /\ HistTypes'
  BY <2>1 DEF QueueTypes, HistTypes
<2>7. GameTypes' /\ CallTypes' /\ crashed' \in BOOLEAN
  BY <2>1 DEF GameTypes, CallTypes
<2>8. WorkerInv'
  BY <2>1 DEF WorkerInv
<2> QED
  BY <2>2, <2>5, <2>6, <2>7, <2>8
<1>23. ASSUME NEW p \in Pollers, PopTimesOut(p) PROVE TypeInv'
<2>1. UNCHANGED <<cmdVars, workerVars, queueVars, gameVars, callVars, crashed, histVars>>
  BY <1>23 DEF PopTimesOut
<2>2. PollTypes'
  BY <1>23 DEF PopTimesOut, PollTypes, QueueTypes
<2>5. CmdTypes' /\ WorkerTypes'
  BY <2>1 DEF CmdTypes, WorkerTypes
<2>6. QueueTypes' /\ HistTypes'
  BY <2>1 DEF QueueTypes, HistTypes
<2>7. GameTypes' /\ CallTypes' /\ crashed' \in BOOLEAN
  BY <2>1 DEF GameTypes, CallTypes
<2>8. WorkerInv'
  BY <2>1 DEF WorkerInv
<2> QED
  BY <2>2, <2>5, <2>6, <2>7, <2>8
<1>24. ASSUME NEW p \in Pollers, PopBegins(p) PROVE TypeInv'
<2>1. UNCHANGED <<cmdVars, workerVars, queueVars, gameVars, callVars, crashed, histVars>>
  BY <1>24 DEF PopBegins
<2>2. PollTypes'
  BY <1>24 DEF PopBegins, PollTypes, QueueTypes
<2>5. CmdTypes' /\ WorkerTypes'
  BY <2>1 DEF CmdTypes, WorkerTypes
<2>6. QueueTypes' /\ HistTypes'
  BY <2>1 DEF QueueTypes, HistTypes
<2>7. GameTypes' /\ CallTypes' /\ crashed' \in BOOLEAN
  BY <2>1 DEF GameTypes, CallTypes
<2>8. WorkerInv'
  BY <2>1 DEF WorkerInv
<2> QED
  BY <2>2, <2>5, <2>6, <2>7, <2>8
<1>25. ASSUME NEW p \in Pollers, PopTakes(p) PROVE TypeInv'
<2>1. CmdTypes'
  BY <1>25 DEF PopTakes, Keeps, CmdTypes, CommandRecords, HandlerKinds, CommandType, ResultCode, Cmds, NoCmd
<2>2. WorkerTypes'
  BY <1>25 DEF PopTakes, Keeps, WorkerTypes, Cmds, NoCmd
<2>3. QueueTypes'
  BY <1>25, FrontType DEF PopTakes, QueueTypes, PollTypes
<2>4. GameTypes'
  BY <1>25 DEF PopTakes, Keeps, GameTypes, Cmds, NoCmd
<2>5. PollTypes'
  <3> DEFINE q == PollerQueue[p]
  <3>1. results[q][Len(results[q])] \in Cmds
    BY <1>25 DEF PopTakes, QueueTypes
  <3> QED
    BY <1>25, <3>1 DEF PopTakes, Keeps, PollTypes
<2>6. CallTypes'
  BY <1>25 DEF PopTakes, Keeps, CallTypes, Cmds, NoCmd
<2>7. HistTypes'
  BY <1>25 DEF PopTakes, Keeps, HistTypes, Fates, Lost, Cmds, NoCmd
<2>8. WorkerInv'
  BY <1>25 DEF PopTakes, Keeps, WorkerInv, Busy, CommandType, CmdTypes, CommandRecords, WorkerTypes, Cmds, NoCmd
<2>9. crashed' \in BOOLEAN
  BY <1>25 DEF PopTakes, Keeps
<2> QED
  BY <2>1, <2>2, <2>3, <2>4, <2>5, <2>6, <2>7, <2>8, <2>9
<1>26. ASSUME NEW p \in Pollers, PopEnds(p) PROVE TypeInv'
<2>1. UNCHANGED <<cmdVars, workerVars, queues, gen, pending_commands, gameVars, callVars,
                 crashed, threw, log>>
  BY <1>26 DEF PopEnds
<2>2. PollTypes'
  <3>1. <<>> \in Seq(Cmds)
    OBVIOUS
  <3> QED
    BY <1>26, <3>1 DEF PopEnds, PollTypes
<2>3. results' \in [Queues -> Seq(Cmds)]
  BY <1>26 DEF PopEnds, PutsBack, QueueTypes, PollTypes
<2>4. fate' \in [Cmds -> Fates]
  BY <1>26 DEF PopEnds, HistTypes, Fates
<2>5. CmdTypes' /\ WorkerTypes'
  BY <2>1 DEF CmdTypes, WorkerTypes
<2>6. QueueTypes' /\ HistTypes'
  BY <2>1, <2>3, <2>4 DEF QueueTypes, HistTypes
<2>7. GameTypes' /\ CallTypes' /\ crashed' \in BOOLEAN
  BY <2>1, <2>3 DEF GameTypes, CallTypes
<2>8. WorkerInv'
  BY <2>1 DEF WorkerInv
<2> QED
  BY <2>2, <2>5, <2>6, <2>7, <2>8
<1>27. ASSUME NEW p \in Pollers, NEW dies \in BOOLEAN, PopUsesFreed(p, dies) PROVE TypeInv'
<2>1. UNCHANGED <<cmdVars, workerVars, queueVars, gameVars, callVars, threw, log>>
  BY <1>27 DEF PopUsesFreed
<2>2. PollTypes'
  <3>1. <<>> \in Seq(Cmds)
    OBVIOUS
  <3> QED
    BY <1>27, <3>1 DEF PopUsesFreed, PollTypes
<2>3. crashed' \in BOOLEAN
  BY <1>27 DEF PopUsesFreed
<2>4. fate' \in [Cmds -> Fates]
  BY <1>27 DEF PopUsesFreed, HistTypes, Fates, Lost
<2>5. CmdTypes' /\ WorkerTypes'
  BY <2>1 DEF CmdTypes, WorkerTypes
<2>6. QueueTypes' /\ HistTypes'
  BY <2>1, <2>3, <2>4 DEF QueueTypes, HistTypes
<2>7. GameTypes' /\ CallTypes' /\ crashed' \in BOOLEAN
  BY <2>1, <2>3 DEF GameTypes, CallTypes
<2>8. WorkerInv'
  BY <2>1 DEF WorkerInv
<2> QED
  BY <2>2, <2>5, <2>6, <2>7, <2>8
<1>28. ASSUME NEW p \in Pollers, FlushReturns(p) PROVE TypeInv'
<2>1. CmdTypes'
  BY <1>28 DEF FlushReturns, ErasesPopped, Answer, CmdTypes, CommandRecords, HandlerKinds, CommandType, ResultCode, Cmds, NoCmd
<2>2. WorkerTypes'
  BY <1>28 DEF FlushReturns, ErasesPopped, Answer, WorkerTypes, Cmds, NoCmd
<2>3. QueueTypes'
  BY <1>28 DEF FlushReturns, ErasesPopped, Answer, QueueTypes, Cmds, NoCmd
<2>4. GameTypes'
  BY <1>28 DEF FlushReturns, ErasesPopped, Answer, GameTypes, Cmds, NoCmd
<2>5. PollTypes'
  BY <1>28 DEF FlushReturns, ErasesPopped, Answer, PollTypes, Cmds, NoCmd
<2>6. CallTypes'
  BY <1>28 DEF FlushReturns, ErasesPopped, Answer, CallTypes, Cmds, NoCmd
<2>7. HistTypes'
  <3>1. log[PollerQueue[p]] \in Seq(Cmds) /\ Reverse(res[p]) \in Seq(Cmds)
    BY ReverseType DEF HistTypes, PollTypes
  <3>2. log' \in [Queues -> Seq(Cmds)]
    BY <1>28, <3>1 DEF FlushReturns, Answer, HistTypes
  <3>3. fate' \in [Cmds -> Fates] /\ threw' \subseteq Cmds
    BY <1>28 DEF FlushReturns, HistTypes, Fates
  <3> QED
    BY <3>2, <3>3 DEF HistTypes
<2>8. WorkerInv'
  BY <1>28 DEF FlushReturns, ErasesPopped, Answer, WorkerInv, Busy, CommandType, CmdTypes, CommandRecords, WorkerTypes, Cmds, NoCmd
<2>9. crashed' \in BOOLEAN
  BY <1>28 DEF FlushReturns, ErasesPopped, Answer
<2> QED
  BY <2>1, <2>2, <2>3, <2>4, <2>5, <2>6, <2>7, <2>8, <2>9
<1>29. CASE UNCHANGED vars
  BY <1>29 DEF vars, CmdTypes, WorkerTypes, QueueTypes, GameTypes, PollTypes, CallTypes, HistTypes, WorkerInv
<1> QED
  BY <1>1, <1>2, <1>3, <1>4, <1>5, <1>6, <1>7, <1>8, <1>9, <1>10, <1>11, <1>12, <1>13, <1>14, <1>15, <1>16, <1>17, <1>18, <1>19, <1>20, <1>21, <1>22, <1>23, <1>24, <1>25, <1>26, <1>27, <1>28, <1>29 DEF Next, Submitter, Caller, Owner, Worker, GameLoop, Poller

(* Every variable of the command manager keeps its type, for any number of   *)
(* commands, queues, callers and pollers.                                    *)
THEOREM TypeCorrect == Spec => []TypeOK
<1>1. Init => TypeInv
  BY TypeInit
<1>2. TypeInv /\ [Next]_vars => TypeInv'
  BY TypeNext
<1>3. TypeInv => TypeOK
  BY DEF TypeInv
<1> QED
  BY <1>1, <1>2, <1>3, PTL DEF Spec


-----------------------------------------------------------------------------
(* The inductive invariant behind the delivery properties.  The history     *)
(* variable fate names the one place a command is in, and every container   *)
(* holds only commands with the matching fate, none of them twice.          *)

NoRepeat(s) == \A i, j \in 1..Len(s) : s[i] = s[j] => i = j
Apart(s, t) == \A i \in 1..Len(s), j \in 1..Len(t) : s[i] # t[j]

WorkerOwns ==
  /\ wpc \in Busy <=> wcmd # NoCmd
  /\ wpc \in Busy => fate[wcmd] = "running"
  /\ \A c \in work_queue : fate[c] = "work"
  /\ \A c \in Cmds : c > command_counter => fate[c] = "unused"

QueueOwns ==
  \A q \in Queues :
    /\ NoRepeat(results[q])
    /\ \A i \in 1..Len(results[q]) : /\ fate[results[q][i]] = "queued"
                                     /\ cmd[results[q][i]].queue_id = q

PollerOwns ==
  \A p \in Pollers :
    /\ NoRepeat(res[p]) /\ NoRepeat(kept[p]) /\ Apart(res[p], kept[p])
    /\ \A i \in 1..Len(res[p]) : /\ fate[res[p][i]] = "popping"
                                 /\ cmd[res[p][i]].queue_id = PollerQueue[p]
                                 /\ ~pending[res[p][i]]
    /\ \A i \in 1..Len(kept[p]) : /\ fate[kept[p][i]] = "popping"
                                  /\ cmd[kept[p][i]].queue_id = PollerQueue[p]

PollersApart ==
  \A p, r \in Pollers : p # r =>
    Apart(res[p], res[r]) /\ Apart(res[p], kept[r]) /\ Apart(kept[p], kept[r])

LogOwns ==
  \A q \in Queues :
    /\ NoRepeat(log[q])
    /\ \A i \in 1..Len(log[q]) : /\ fate[log[q][i]] = "delivered"
                                 /\ cmd[log[q][i]].queue_id = q

(* Commands that left the worker have a result code; the game loop's work   *)
(* items are pending, so no poll can have answered them.                    *)
Coded ==
  /\ \A c \in Cmds : fate[c] \in {"queued", "popping", "delivered"} =>
                        result_code[c] # "NONE"
  /\ wpc \in {"check", "emplace"} => result_code[wcmd] # "NONE"
GameOwns ==
  /\ NoRepeat(game_work)
  /\ \A i \in 1..Len(game_work) : /\ pending[game_work[i]]
                                  /\ fate[game_work[i]] \notin {"unused", "work"}
                                  /\ wpc = "run" => game_work[i] # wcmd
AnsweredDone == \A c \in Cmds : fate[c] = "delivered" => ~pending[c]

(* pending_commands_ covers the results that wait for the game loop, and     *)
(* nothing that was answered.                                                *)
PendingInv ==
  /\ \A c \in pending_commands : fate[c] \notin {"unused", "work", "delivered"}
  /\ \A c \in Cmds : fate[c] \in {"queued", "popping"} /\ pending[c] => c \in pending_commands
  /\ wpc = "emplace" /\ pending[wcmd] => wcmd \in pending_commands

IInv == /\ TypeInv
        /\ WorkerOwns /\ QueueOwns /\ PollerOwns /\ PollersApart /\ LogOwns
        /\ Coded /\ GameOwns /\ AnsweredDone /\ PendingInv

(* Elements of the sequences the steps build. *)
LEMMA InToSet ==
  ASSUME NEW S, NEW s \in Seq(S), NEW c
  PROVE  c \in ToSet(s) <=> \E i \in 1..Len(s) : s[i] = c
BY DEF ToSet

(* Two queues without a common command stay so when one is emptied. *)
LEMMA ApartEmptied ==
  ASSUME NEW s, NEW t, Apart(s, t), NEW s2 \in {s, <<>>}, NEW t2 \in {t, <<>>}
  PROVE  Apart(s2, t2)
<1>1. CASE s2 = <<>>
  BY <1>1 DEF Apart
<1>2. CASE t2 = <<>>
  BY <1>2 DEF Apart
<1>3. CASE s2 = s /\ t2 = t
  BY <1>3
<1> QED
  BY <1>1, <1>2, <1>3

(* A command that was not in a list is in it once when appended. *)
LEMMA AppendElements ==
  ASSUME NEW S, NEW s \in Seq(S), NEW w \in S, NoRepeat(s), \A i \in 1..Len(s) : s[i] # w
  PROVE  /\ NoRepeat(Append(s, w))
         /\ \A i \in 1..Len(Append(s, w)) : \/ Append(s, w)[i] = w
                                            \/ \E j \in 1..Len(s) : Append(s, w)[i] = s[j]
<1>1. \A i \in 1..Len(s) + 1 : Append(s, w)[i] = IF i = Len(s) + 1 THEN w ELSE s[i]
  OBVIOUS
<1> QED
  BY <1>1 DEF NoRepeat

(* The ring's emplace puts the new command in once, and only the oldest one *)
(* may leave.                                                               *)
LEMMA RingElements ==
  ASSUME NEW S, NEW s \in Seq(S), NEW w \in S, NoRepeat(s), \A i \in 1..Len(s) : s[i] # w
  PROVE  /\ NoRepeat(RingEmplace(s, w))
         /\ \A i \in 1..Len(RingEmplace(s, w)) :
              \/ RingEmplace(s, w)[i] = w
              \/ \E j \in 1..Len(s) : /\ RingEmplace(s, w)[i] = s[j]
                                      /\ RingEvicts(s) => j # 1
<1>1. CASE ~RingEvicts(s)
  <2>1. RingEmplace(s, w) = Append(s, w)
    BY <1>1 DEF RingEmplace
  <2>2. \A i \in 1..Len(s) + 1 : Append(s, w)[i] = IF i = Len(s) + 1 THEN w ELSE s[i]
    OBVIOUS
  <2> QED
    BY <1>1, <2>1, <2>2 DEF NoRepeat
<1>2. CASE RingEvicts(s)
  <2>1. s # <<>> /\ RingEmplace(s, w) = Append(Tail(s), w)
    BY <1>2, ConstantsAssumption DEF RingEmplace, RingEvicts
  <2>a. /\ Tail(s) \in Seq(S) /\ Len(Tail(s)) = Len(s) - 1
        /\ \A i \in 1..Len(Tail(s)) : Tail(s)[i] = s[i + 1]
    BY <2>1, HeadTailProperties
  <2>b. Len(s) \in Nat /\ Len(Tail(s)) \in Nat /\ Len(s) = Len(Tail(s)) + 1
    BY <2>1, <2>a
  <2>2. PICK t \in Seq(S), n \in Nat :
          t = Tail(s) /\ n = Len(t) /\ Len(s) = n + 1 /\ \A i \in 1..n : t[i] = s[i + 1]
    BY <2>a, <2>b
  <2>3. Len(Append(t, w)) = n + 1 /\ Append(t, w)[n + 1] = w
        /\ \A i \in 1..n : Append(t, w)[i] = s[i + 1]
    BY <2>2
  <2>4. \A i \in 1..n + 1 : i = n + 1 \/ i \in 1..n
    BY <2>2
  <2>5. \A i \in 1..n : i + 1 \in 1..Len(s) /\ i + 1 # 1
    BY <2>2
  <2>6. NoRepeat(Append(t, w))
    <3> SUFFICES ASSUME NEW i \in 1..n + 1, NEW j \in 1..n + 1,
                        Append(t, w)[i] = Append(t, w)[j]
                 PROVE  i = j
      BY <2>3 DEF NoRepeat
    <3>1. CASE i \in 1..n /\ j \in 1..n
      <4>1. i + 1 = j + 1
        BY <2>3, <2>5, <3>1 DEF NoRepeat
      <4> QED
        BY <4>1
    <3>2. CASE i = n + 1 \/ j = n + 1
      BY <2>3, <2>4, <2>5, <3>2
    <3> QED
      BY <2>4, <3>1, <3>2
  <2> QED
    BY <1>2, <2>1, <2>2, <2>3, <2>4, <2>5, <2>6
<1> QED
  BY <1>1, <1>2

(* An answer is the earlier ones and the reversed new ones, nothing twice. *)
LEMMA AnswerElements ==
  ASSUME NEW S, NEW a \in Seq(S), NEW b \in Seq(S), NoRepeat(a), NoRepeat(b), Apart(a, b)
  PROVE  /\ NoRepeat(a \o Reverse(b))
         /\ \A i \in 1..Len(a \o Reverse(b)) :
              \/ \E j \in 1..Len(a) : (a \o Reverse(b))[i] = a[j]
              \/ \E j \in 1..Len(b) : (a \o Reverse(b))[i] = b[j]
<1> DEFINE m == Len(a)
           n == Len(b)
<1>0. /\ Reverse(b) \in Seq(S) /\ Len(Reverse(b)) = n
      /\ \A i \in 1..n : Reverse(b)[i] = b[(n - i) + 1]
  BY ReverseType DEF Reverse
<1>1. PICK r \in Seq(S) : /\ r = Reverse(b) /\ Len(r) = n
                          /\ \A i \in 1..n : r[i] = b[(n - i) + 1]
  BY <1>0
<1> DEFINE t == a \o r
<1>a. m \in Nat /\ n \in Nat
  OBVIOUS
<1>b. Len(a \o r) = Len(a) + Len(r)
  BY ConcatProperties
<1>2. m \in Nat /\ n \in Nat /\ Len(t) = m + n
  BY <1>1, <1>a, <1>b
<1>3. \A i \in 1..m : t[i] = a[i]
  BY <1>1
<1>4. \A i \in m + 1..m + n : i - m \in 1..n /\ t[i] = r[i - m]
  BY <1>1
<1>5. \A i \in m + 1..m + n : (n - (i - m)) + 1 \in 1..n /\ t[i] = b[(n - (i - m)) + 1]
  <2> SUFFICES ASSUME NEW i \in m + 1..m + n
               PROVE  (n - (i - m)) + 1 \in 1..n /\ t[i] = b[(n - (i - m)) + 1]
    OBVIOUS
  <2>1. i - m \in 1..n /\ t[i] = r[i - m]
    BY <1>4
  <2>2. r[i - m] = b[(n - (i - m)) + 1]
    BY <1>1, <2>1
  <2>3. \A j \in 1..n : (n - j) + 1 \in 1..n
    BY <1>a
  <2> QED
    BY <2>1, <2>2, <2>3
<1>6. \A i \in 1..m + n : i \in 1..m \/ i \in m + 1..m + n
  BY <1>2
<1>7. NoRepeat(t)
  <2> SUFFICES ASSUME NEW i \in 1..m + n, NEW j \in 1..m + n, t[i] = t[j] PROVE i = j
    BY <1>2 DEF NoRepeat
  <2>1. CASE i \in 1..m /\ j \in 1..m
    BY <1>3, <2>1 DEF NoRepeat
  <2>2. CASE i \in m + 1..m + n /\ j \in m + 1..m + n
    <3>1. (n - (i - m)) + 1 = (n - (j - m)) + 1
      BY <1>5, <2>2 DEF NoRepeat
    <3> QED
      BY <1>2, <2>2, <3>1
  <2>3. CASE i \in 1..m /\ j \in m + 1..m + n
    BY <1>3, <1>5, <2>3 DEF Apart
  <2>4. CASE j \in 1..m /\ i \in m + 1..m + n
    BY <1>3, <1>5, <2>4 DEF Apart
  <2> QED
    BY <1>6, <2>1, <2>2, <2>3, <2>4
<1>8. \A i \in 1..m + n : \/ \E j \in 1..m : t[i] = a[j]
                          \/ \E j \in 1..n : t[i] = b[j]
  BY <1>3, <1>5, <1>6
<1> QED
  BY <1>1, <1>2, <1>7, <1>8

(* What the containers hold is undisturbed by a step that leaves the fate    *)
(* and the record of their commands alone and sets no pending flag of them.  *)
Stays(F) ==
  \A c \in Cmds : fate[c] \in F => /\ fate'[c] = fate[c]
                                   /\ cmd'[c] = cmd[c]
                                   /\ pending'[c] => pending[c]

(* A step that moves no queued command keeps the queues' ownership. *)
LEMMA QueueFrame ==
  ASSUME QueueTypes, QueueOwns, Stays({"queued"}), UNCHANGED results
  PROVE  QueueOwns'
<1>1. \A q \in Queues : \A i \in 1..Len(results[q]) : results[q][i] \in Cmds
  BY DEF QueueTypes
<1> QED
  BY <1>1 DEF QueueOwns, Stays, NoRepeat

(* A step that moves no command held by a poll keeps the polls' ownership. *)
LEMMA PollerFrame ==
  ASSUME PollTypes, PollerOwns, PollersApart, Stays({"popping"}), UNCHANGED <<res, kept>>
  PROVE  PollerOwns' /\ PollersApart'
<1>1. \A p \in Pollers : /\ \A i \in 1..Len(res[p]) : res[p][i] \in Cmds
                         /\ \A i \in 1..Len(kept[p]) : kept[p][i] \in Cmds
  BY DEF PollTypes
<1>2. PollerOwns'
  <2>1. ASSUME NEW p \in Pollers
        PROVE  /\ \A i \in 1..Len(res[p]) : /\ fate'[res[p][i]] = "popping"
                                           /\ cmd'[res[p][i]].queue_id = PollerQueue[p]
               /\ \A i \in 1..Len(kept[p]) : /\ fate'[kept[p][i]] = "popping"
                                            /\ cmd'[kept[p][i]].queue_id = PollerQueue[p]
    BY <1>1 DEF PollerOwns, Stays
  <2>2. ASSUME NEW p \in Pollers, NEW i \in 1..Len(res[p])
        PROVE  ~pending'[res[p][i]]
    <3>1. ~pending[res[p][i]] /\ fate[res[p][i]] = "popping"
      BY Zenon DEF PollerOwns
    <3>2. res[p][i] \in Cmds
      BY <1>1
    <3> QED
      BY <3>1, <3>2, Zenon DEF Stays
  <2>3. ASSUME NEW p \in Pollers
        PROVE  NoRepeat(res[p]) /\ NoRepeat(kept[p]) /\ Apart(res[p], kept[p])
    BY DEF PollerOwns
  <2>4. res' = res /\ kept' = kept
    OBVIOUS
  <2> QED
    BY <2>1, <2>2, <2>3, <2>4 DEF PollerOwns
<1>3. PollersApart'
  BY DEF PollersApart, Apart
<1> QED
  BY <1>2, <1>3

(* A step that moves no answered command keeps the log's ownership. *)
LEMMA LogFrame ==
  ASSUME HistTypes, LogOwns, Stays({"delivered"}), UNCHANGED log
  PROVE  LogOwns'
<1>1. \A q \in Queues : \A i \in 1..Len(log[q]) : log[q][i] \in Cmds
  BY DEF HistTypes
<1> QED
  BY <1>1 DEF LogOwns, Stays, NoRepeat

Containers == QueueOwns /\ PollerOwns /\ PollersApart /\ LogOwns

(* A step that moves no finished command keeps every container's ownership. *)
LEMMA Frame ==
  ASSUME TypeOK, Containers, Stays({"queued", "popping", "delivered"}),
         UNCHANGED <<results, res, kept, log>>
  PROVE  Containers'
<1>1. Stays({"queued"}) /\ Stays({"popping"}) /\ Stays({"delivered"})
  BY DEF Stays
<1> QED
  BY <1>1, QueueFrame, PollerFrame, LogFrame DEF Containers, TypeOK

(* make_command, make_builtin_command and enqueuing touch a fresh command. *)
LEMMA MakeOwns ==
  ASSUME IInv, NEW r, Make(command_counter + 1, r)
  PROVE  Containers' /\ WorkerOwns' /\ Coded' /\ GameOwns' /\ AnsweredDone' /\ PendingInv'
<1> DEFINE n == command_counter + 1
<1> USE DEF queueVars, gameVars, pollVars
<1>1. /\ n \in Cmds /\ n > command_counter /\ command_counter \in Nat
      /\ fate[n] = "unused"
      /\ work_queue' = work_queue \cup {n} /\ command_counter' = n
  BY ConstantsAssumption DEF IInv, TypeInv, TypeOK, CmdTypes, Make, CountCommand, WorkerOwns, Cmds
<1>2. /\ fate' = [fate EXCEPT ![n] = "work"]
      /\ cmd' = [cmd EXCEPT ![n] = r]
      /\ UNCHANGED <<pending, result_code, wpc, wcmd, pending_commands, game_work, results,
                     res, kept, log>>
  BY DEF Make
<1>3. /\ fate'[n] = "work"
      /\ \A c \in Cmds : c # n => fate'[c] = fate[c] /\ cmd'[c] = cmd[c]
  BY <1>1, <1>2 DEF IInv, TypeInv, TypeOK, CmdTypes, HistTypes
<1>4. Stays({"queued", "popping", "delivered"})
  BY <1>1, <1>2, <1>3 DEF Stays
<1>5. Containers'
  BY <1>2, <1>4, Frame DEF IInv, TypeInv, Containers
<1>6. WorkerOwns'
  BY <1>1, <1>2, <1>3 DEF IInv, TypeInv, TypeOK, WorkerTypes, WorkerInv, WorkerOwns, Cmds, NoCmd, Busy
<1>7. Coded'
  BY <1>1, <1>2, <1>3 DEF IInv, Coded
<1>8. GameOwns'
  BY <1>1, <1>2, <1>3 DEF IInv, TypeInv, TypeOK, GameTypes, GameOwns, NoRepeat
<1>9. AnsweredDone' /\ PendingInv'
  BY <1>1, <1>2, <1>3 DEF IInv, AnsweredDone, PendingInv, TypeInv, TypeOK, QueueTypes
<1> QED
  BY <1>5, <1>6, <1>7, <1>8, <1>9

(* One step per action, and under it one per part the action can disturb.   *)
LEMMA OwnerNext == IInv /\ [Next]_vars => IInv'
<1> SUFFICES ASSUME IInv, [Next]_vars PROVE IInv'
  OBVIOUS
<1> USE ConstantsAssumption DEF TypeInv, TypeOK
<1> USE DEF cmdVars, workerVars, queueVars, gameVars, pollVars, callVars, histVars
<1>a. TypeInv'
  BY TypeNext DEF IInv
<1>b. /\ TypeInv /\ Containers /\ WorkerOwns /\ Coded /\ GameOwns /\ AnsweredDone /\ PendingInv
      /\ command_counter \in Nat /\ (wpc \in Busy => wcmd \in Cmds)
  BY DEF IInv, Containers, CmdTypes, WorkerInv, Cmds
<1>c. Containers' /\ WorkerOwns' /\ Coded' /\ GameOwns' /\ AnsweredDone' /\ PendingInv' => IInv'
  BY <1>a DEF IInv, Containers
<1>1. ASSUME NEW q \in Queues, NEW k \in Kinds \ {Unknown}, NEW d \in Discards, Submit(q, k, d) PROVE IInv'
  BY <1>1, <1>c, MakeOwns DEF Submit
<1>2. ASSUME SubmitUnknown PROVE IInv'
<2>1. Stays({"queued", "popping", "delivered"}) /\ UNCHANGED <<results, res, kept, log>>
  BY <1>b, <1>2 DEF SubmitUnknown, Stays, WorkerOwns, Busy, CmdTypes, HistTypes
<2>2. Containers'
  BY <1>b, <2>1, Frame
<2>3. WorkerOwns'
  BY <1>b, <1>2 DEF SubmitUnknown, WorkerOwns, Busy, CmdTypes, WorkerTypes, HistTypes, WorkerInv, Cmds, NoCmd
<2>4. Coded'
  BY <1>b, <1>2 DEF SubmitUnknown, Coded, WorkerOwns, Busy, CmdTypes, HistTypes, WorkerInv, Cmds, NoCmd
<2>5. GameOwns'
  BY <1>b, <1>2 DEF SubmitUnknown, GameOwns, NoRepeat, WorkerOwns, Busy, GameTypes, CmdTypes, HistTypes, WorkerInv, Cmds, NoCmd
<2>6. AnsweredDone'
  BY <1>b, <1>2 DEF SubmitUnknown, AnsweredDone, WorkerOwns, Busy, CmdTypes, HistTypes, WorkerInv, Cmds, NoCmd
<2>7. PendingInv'
  BY <1>b, <1>2 DEF SubmitUnknown, PendingInv, WorkerOwns, Busy, CmdTypes, QueueTypes, HistTypes, WorkerInv, Cmds, NoCmd
<2> QED
  BY <1>c, <2>2, <2>3, <2>4, <2>5, <2>6, <2>7
<1>3. ASSUME NEW k \in Callers, NEW t \in {CommandType.CREATE_QUEUE, CommandType.DESTROY_QUEUE}, NEW q \in Queues, ExecuteBuiltin(k, t, q) PROVE IInv'
  BY <1>3, <1>c, MakeOwns DEF ExecuteBuiltin
<1>4. ASSUME NEW k \in Callers, BuiltinReturns(k) PROVE IInv'
<2>1. Stays({"queued", "popping", "delivered"}) /\ UNCHANGED <<results, res, kept, log>>
  BY <1>b, <1>4 DEF BuiltinReturns, Stays, WorkerOwns, Busy, CmdTypes, HistTypes
<2>2. Containers'
  BY <1>b, <2>1, Frame
<2>3. WorkerOwns'
  BY <1>b, <1>4 DEF BuiltinReturns, WorkerOwns, Busy, CmdTypes, WorkerTypes, HistTypes, WorkerInv, Cmds, NoCmd
<2>4. Coded'
  BY <1>b, <1>4 DEF BuiltinReturns, Coded, WorkerOwns, Busy, CmdTypes, HistTypes, WorkerInv, Cmds, NoCmd
<2>5. GameOwns'
  BY <1>b, <1>4 DEF BuiltinReturns, GameOwns, NoRepeat, WorkerOwns, Busy, GameTypes, CmdTypes, HistTypes, WorkerInv, Cmds, NoCmd
<2>6. AnsweredDone'
  BY <1>b, <1>4 DEF BuiltinReturns, AnsweredDone, WorkerOwns, Busy, CmdTypes, HistTypes, WorkerInv, Cmds, NoCmd
<2>7. PendingInv'
  BY <1>b, <1>4 DEF BuiltinReturns, PendingInv, WorkerOwns, Busy, CmdTypes, QueueTypes, HistTypes, WorkerInv, Cmds, NoCmd
<2> QED
  BY <1>c, <2>2, <2>3, <2>4, <2>5, <2>6, <2>7
<1>5. ASSUME Shutdown PROVE IInv'
  BY <1>5, <1>c, MakeOwns DEF Shutdown
<1>6. ASSUME ShutdownJoins PROVE IInv'
<2>1. Stays({"queued", "popping", "delivered"}) /\ UNCHANGED <<results, res, kept, log>>
  BY <1>b, <1>6 DEF ShutdownJoins, Stays, WorkerOwns, Busy, CmdTypes, HistTypes
<2>2. Containers'
  BY <1>b, <2>1, Frame
<2>3. WorkerOwns'
  BY <1>b, <1>6 DEF ShutdownJoins, WorkerOwns, Busy, CmdTypes, WorkerTypes, HistTypes, WorkerInv, Cmds, NoCmd
<2>4. Coded'
  BY <1>b, <1>6 DEF ShutdownJoins, Coded, WorkerOwns, Busy, CmdTypes, HistTypes, WorkerInv, Cmds, NoCmd
<2>5. GameOwns'
  BY <1>b, <1>6 DEF ShutdownJoins, GameOwns, NoRepeat, WorkerOwns, Busy, GameTypes, CmdTypes, HistTypes, WorkerInv, Cmds, NoCmd
<2>6. AnsweredDone'
  BY <1>b, <1>6 DEF ShutdownJoins, AnsweredDone, WorkerOwns, Busy, CmdTypes, HistTypes, WorkerInv, Cmds, NoCmd
<2>7. PendingInv'
  BY <1>b, <1>6 DEF ShutdownJoins, PendingInv, WorkerOwns, Busy, CmdTypes, QueueTypes, HistTypes, WorkerInv, Cmds, NoCmd
<2> QED
  BY <1>c, <2>2, <2>3, <2>4, <2>5, <2>6, <2>7
<1>7. ASSUME NEW c \in Cmds, WorkerCreatesQueue(c) PROVE IInv'
<2>1. Stays({"queued", "popping", "delivered"}) /\ UNCHANGED <<results, res, kept, log>>
  BY <1>b, <1>7 DEF WorkerCreatesQueue, WorkerTakes, BuiltinDone, IsTop, Stays, WorkerOwns, Busy, CmdTypes, HistTypes
<2>2. Containers'
  BY <1>b, <2>1, Frame
<2>3. WorkerOwns'
  BY <1>b, <1>7 DEF WorkerCreatesQueue, WorkerTakes, BuiltinDone, IsTop, WorkerOwns, Busy, CmdTypes, WorkerTypes, HistTypes, WorkerInv, Cmds, NoCmd
<2>4. Coded'
  BY <1>b, <1>7 DEF WorkerCreatesQueue, WorkerTakes, BuiltinDone, IsTop, Coded, WorkerOwns, Busy, CmdTypes, HistTypes, WorkerInv, Cmds, NoCmd
<2>5. GameOwns'
  BY <1>b, <1>7 DEF WorkerCreatesQueue, WorkerTakes, BuiltinDone, IsTop, GameOwns, NoRepeat, WorkerOwns, Busy, GameTypes, CmdTypes, HistTypes, WorkerInv, Cmds, NoCmd
<2>6. AnsweredDone'
  BY <1>b, <1>7 DEF WorkerCreatesQueue, WorkerTakes, BuiltinDone, IsTop, AnsweredDone, WorkerOwns, Busy, CmdTypes, HistTypes, WorkerInv, Cmds, NoCmd
<2>7. PendingInv'
  BY <1>b, <1>7 DEF WorkerCreatesQueue, WorkerTakes, BuiltinDone, IsTop, PendingInv, WorkerOwns, Busy, CmdTypes, QueueTypes, HistTypes, WorkerInv, Cmds, NoCmd
<2> QED
  BY <1>c, <2>2, <2>3, <2>4, <2>5, <2>6, <2>7
<1>8. ASSUME NEW c \in Cmds, WorkerDestroysQueue(c) PROVE IInv'
<2> DEFINE q == cmd[c].queue_id
<2>1. /\ c \in work_queue /\ work_queue' = work_queue \ {c} /\ wpc = "wait" /\ q \in Queues
      /\ fate[c] = "work" /\ c \in 1..command_counter
      /\ UNCHANGED <<command_counter, cmd, pending, pending_commands, game_work, res, kept, log,
                     wpc, wcmd>>
  BY <1>b, <1>8 DEF WorkerDestroysQueue, WorkerTakes, IsTop, WorkerOwns, WorkerInv, CommandType
<2>2. /\ results'[q] = <<>>
      /\ \A r \in Queues : r # q => results'[r] = results[r]
      /\ \A d \in Cmds : d # c => result_code'[d] = result_code[d]
  <3>1. /\ results' = [results EXCEPT ![q] = <<>>]
        /\ result_code' = [result_code EXCEPT ![c] = "OK"]
    BY <1>8 DEF WorkerDestroysQueue, BuiltinDone
  <3> QED
    BY <1>b, <2>1, <3>1 DEF QueueTypes, CmdTypes
<2>3. /\ fate'[c] = "done"
      /\ \A d \in Cmds : d # c =>
           fate'[d] = IF d \in ToSet(results[q]) THEN "destroyed" ELSE fate[d]
  <3>1. fate' = [d \in Cmds |-> IF d = c THEN "done"
                               ELSE IF d \in ToSet(results[q]) THEN "destroyed"
                               ELSE fate[d]]
    BY <1>8 DEF WorkerDestroysQueue
  <3> QED
    BY <3>1
<2>4. \A d \in ToSet(results[q]) : fate[d] = "queued" /\ cmd[d].queue_id = q
  BY <1>b, <2>1, InToSet DEF Containers, QueueOwns, QueueTypes
<2>5. \A d \in Cmds : /\ fate[d] # "queued" /\ d # c => fate'[d] = fate[d]
                      /\ d # c => fate'[d] \in {fate[d], "destroyed"}
  BY <2>3, <2>4
<2>6. QueueOwns'
  <3>1. \A r \in Queues : \A i \in 1..Len(results[r]) : results[r][i] \in Cmds
    BY <1>b DEF QueueTypes
  <3>2. \A r \in Queues : r # q => \A i \in 1..Len(results[r]) :
          fate'[results[r][i]] = "queued"
    BY <1>b, <2>1, <2>3, <2>4, <3>1 DEF Containers, QueueOwns
  <3>3. \A r \in Queues : r # q => /\ NoRepeat(results[r])
                                   /\ \A i \in 1..Len(results[r]) : cmd[results[r][i]].queue_id = r
    BY <1>b DEF Containers, QueueOwns
  <3> QED
    BY <2>1, <2>2, <3>2, <3>3 DEF QueueOwns, NoRepeat
<2>7. Stays({"popping"}) /\ Stays({"delivered"})
  BY <2>1, <2>5 DEF Stays
<2>8. Containers'
  BY <1>b, <2>1, <2>6, <2>7, PollerFrame, LogFrame DEF Containers
<2>9. WorkerOwns' /\ Coded' /\ AnsweredDone'
  BY <1>b, <2>1, <2>2, <2>3, <2>5 DEF WorkerOwns, Coded, AnsweredDone, Busy, Cmds, WorkerTypes
<2>10. GameOwns'
  <3>1. NoRepeat(game_work)
    BY <1>b DEF GameOwns
  <3>2. \A i \in 1..Len(game_work) : pending[game_work[i]]
    BY <1>b, Zenon DEF GameOwns
  <3>3. \A i \in 1..Len(game_work) : game_work[i] \in Cmds /\ fate[game_work[i]] \notin {"unused", "work"}
    BY <1>b DEF GameOwns, GameTypes
  <3>4. \A i \in 1..Len(game_work) : fate'[game_work[i]] \notin {"unused", "work"}
    BY <2>1, <2>5, <3>3
  <3> QED
    BY <2>1, <3>1, <3>2, <3>4 DEF GameOwns
<2>11. PendingInv'
  BY <1>b, <2>1, <2>3, <2>5 DEF PendingInv, QueueTypes
<2> QED
  BY <1>c, <2>8, <2>9, <2>10, <2>11
<1>9. ASSUME NEW c \in Cmds, WorkerShutsDown(c) PROVE IInv'
<2>1. Stays({"queued", "popping", "delivered"}) /\ UNCHANGED <<results, res, kept, log>>
  BY <1>b, <1>9 DEF WorkerShutsDown, WorkerTakes, Inactive, IsTop, Stays, WorkerOwns, Busy, CmdTypes, HistTypes
<2>2. Containers'
  BY <1>b, <2>1, Frame
<2>3. WorkerOwns'
  BY <1>b, <1>9 DEF WorkerShutsDown, WorkerTakes, Inactive, IsTop, WorkerOwns, Busy, CmdTypes, WorkerTypes, HistTypes, WorkerInv, Cmds, NoCmd
<2>4. Coded'
  BY <1>b, <1>9 DEF WorkerShutsDown, WorkerTakes, Inactive, IsTop, Coded, WorkerOwns, Busy, CmdTypes, HistTypes, WorkerInv, Cmds, NoCmd
<2>5. GameOwns'
  BY <1>b, <1>9 DEF WorkerShutsDown, WorkerTakes, Inactive, IsTop, GameOwns, NoRepeat, WorkerOwns, Busy, GameTypes, CmdTypes, HistTypes, WorkerInv, Cmds, NoCmd
<2>6. AnsweredDone'
  BY <1>b, <1>9 DEF WorkerShutsDown, WorkerTakes, Inactive, IsTop, AnsweredDone, WorkerOwns, Busy, CmdTypes, HistTypes, WorkerInv, Cmds, NoCmd
<2>7. PendingInv'
  BY <1>b, <1>9 DEF WorkerShutsDown, WorkerTakes, Inactive, IsTop, PendingInv, WorkerOwns, Busy, CmdTypes, QueueTypes, HistTypes, WorkerInv, Cmds, NoCmd
<2> QED
  BY <1>c, <2>2, <2>3, <2>4, <2>5, <2>6, <2>7
<1>10. ASSUME NEW c \in Cmds, WorkerRuns(c) PROVE IInv'
<2>1. Stays({"queued", "popping", "delivered"}) /\ UNCHANGED <<results, res, kept, log>>
  BY <1>b, <1>10 DEF WorkerRuns, WorkerTakes, IsTop, Stays, WorkerOwns, Busy, CmdTypes, HistTypes
<2>2. Containers'
  BY <1>b, <2>1, Frame
<2>3. WorkerOwns'
  BY <1>b, <1>10 DEF WorkerRuns, WorkerTakes, IsTop, WorkerOwns, Busy, CmdTypes, WorkerTypes, HistTypes, WorkerInv, Cmds, NoCmd
<2>4. Coded'
  BY <1>b, <1>10 DEF WorkerRuns, WorkerTakes, IsTop, Coded, WorkerOwns, Busy, CmdTypes, HistTypes, WorkerInv, Cmds, NoCmd
<2>5. GameOwns'
  BY <1>b, <1>10 DEF WorkerRuns, WorkerTakes, IsTop, GameOwns, NoRepeat, WorkerOwns, Busy, GameTypes, CmdTypes, HistTypes, WorkerInv, Cmds, NoCmd
<2>6. AnsweredDone'
  BY <1>b, <1>10 DEF WorkerRuns, WorkerTakes, IsTop, AnsweredDone, WorkerOwns, Busy, CmdTypes, HistTypes, WorkerInv, Cmds, NoCmd
<2>7. PendingInv'
  BY <1>b, <1>10 DEF WorkerRuns, WorkerTakes, IsTop, PendingInv, WorkerOwns, Busy, CmdTypes, QueueTypes, HistTypes, WorkerInv, Cmds, NoCmd
<2> QED
  BY <1>c, <2>2, <2>3, <2>4, <2>5, <2>6, <2>7
<1>11. ASSUME HandlerReturns PROVE IInv'
<2>1. Stays({"queued", "popping", "delivered"}) /\ UNCHANGED <<results, res, kept, log>>
  BY <1>b, <1>11 DEF HandlerReturns, Stays, WorkerOwns, Busy, CmdTypes, HistTypes
<2>2. Containers'
  BY <1>b, <2>1, Frame
<2>3. WorkerOwns'
  BY <1>b, <1>11 DEF HandlerReturns, WorkerOwns, Busy, CmdTypes, WorkerTypes, HistTypes, WorkerInv, Cmds, NoCmd
<2>4. Coded'
  BY <1>b, <1>11 DEF HandlerReturns, Coded, WorkerOwns, Busy, CmdTypes, HistTypes, WorkerInv, Cmds, NoCmd
<2>5. GameOwns'
  BY <1>b, <1>11 DEF HandlerReturns, GameOwns, NoRepeat, WorkerOwns, Busy, GameTypes, CmdTypes, HistTypes, WorkerInv, Cmds, NoCmd
<2>6. AnsweredDone'
  BY <1>b, <1>11 DEF HandlerReturns, AnsweredDone, WorkerOwns, Busy, CmdTypes, HistTypes, WorkerInv, Cmds, NoCmd
<2>7. PendingInv'
  BY <1>b, <1>11 DEF HandlerReturns, PendingInv, WorkerOwns, Busy, CmdTypes, QueueTypes, HistTypes, WorkerInv, Cmds, NoCmd
<2> QED
  BY <1>c, <2>2, <2>3, <2>4, <2>5, <2>6, <2>7
<1>12. ASSUME HandlerThrows PROVE IInv'
<2>1. Stays({"queued", "popping", "delivered"}) /\ UNCHANGED <<results, res, kept, log>>
  BY <1>b, <1>12 DEF HandlerThrows, Stays, WorkerOwns, Busy, CmdTypes, HistTypes
<2>2. Containers'
  BY <1>b, <2>1, Frame
<2>3. WorkerOwns'
  BY <1>b, <1>12 DEF HandlerThrows, WorkerOwns, Busy, CmdTypes, WorkerTypes, HistTypes, WorkerInv, Cmds, NoCmd
<2>4. Coded'
  BY <1>b, <1>12 DEF HandlerThrows, Coded, WorkerOwns, Busy, CmdTypes, HistTypes, WorkerInv, Cmds, NoCmd
<2>5. GameOwns'
  BY <1>b, <1>12 DEF HandlerThrows, GameOwns, NoRepeat, WorkerOwns, Busy, GameTypes, CmdTypes, HistTypes, WorkerInv, Cmds, NoCmd
<2>6. AnsweredDone'
  BY <1>b, <1>12 DEF HandlerThrows, AnsweredDone, WorkerOwns, Busy, CmdTypes, HistTypes, WorkerInv, Cmds, NoCmd
<2>7. PendingInv'
  BY <1>b, <1>12 DEF HandlerThrows, PendingInv, WorkerOwns, Busy, CmdTypes, QueueTypes, HistTypes, WorkerInv, Cmds, NoCmd
<2> QED
  BY <1>c, <2>2, <2>3, <2>4, <2>5, <2>6, <2>7
<1>13. ASSUME HandlerDefers PROVE IInv'
<2>1. Stays({"queued", "popping", "delivered"}) /\ UNCHANGED <<results, res, kept, log>>
  BY <1>b, <1>13 DEF HandlerDefers, Stays, WorkerOwns, Busy, CmdTypes, HistTypes
<2>2. Containers'
  BY <1>b, <2>1, Frame
<2>3. WorkerOwns'
  BY <1>b, <1>13 DEF HandlerDefers, WorkerOwns, Busy, CmdTypes, WorkerTypes, HistTypes, WorkerInv, Cmds, NoCmd
<2>4. Coded'
  BY <1>b, <1>13 DEF HandlerDefers, Coded, WorkerOwns, Busy, CmdTypes, HistTypes, WorkerInv, Cmds, NoCmd
<2>5. GameOwns'
  BY <1>b, <1>13 DEF HandlerDefers, GameOwns, NoRepeat, WorkerOwns, Busy, GameTypes, CmdTypes, HistTypes, WorkerInv, Cmds, NoCmd
<2>6. AnsweredDone'
  BY <1>b, <1>13 DEF HandlerDefers, AnsweredDone, WorkerOwns, Busy, CmdTypes, HistTypes, WorkerInv, Cmds, NoCmd
<2>7. PendingInv'
  BY <1>b, <1>13 DEF HandlerDefers, PendingInv, WorkerOwns, Busy, CmdTypes, QueueTypes, HistTypes, WorkerInv, Cmds, NoCmd
<2> QED
  BY <1>c, <2>2, <2>3, <2>4, <2>5, <2>6, <2>7
<1>14. ASSUME SaveCommandResult PROVE IInv'
<2>1. Stays({"queued", "popping", "delivered"}) /\ UNCHANGED <<results, res, kept, log>>
  BY <1>b, <1>14 DEF SaveCommandResult, Stays, WorkerOwns, Busy, CmdTypes, HistTypes
<2>2. Containers'
  BY <1>b, <2>1, Frame
<2>3. WorkerOwns'
  BY <1>b, <1>14 DEF SaveCommandResult, WorkerOwns, Busy, CmdTypes, WorkerTypes, HistTypes, WorkerInv, Cmds, NoCmd
<2>4. Coded'
  BY <1>b, <1>14 DEF SaveCommandResult, Coded, WorkerOwns, Busy, CmdTypes, HistTypes, WorkerInv, Cmds, NoCmd
<2>5. GameOwns'
  BY <1>b, <1>14 DEF SaveCommandResult, GameOwns, NoRepeat, WorkerOwns, Busy, GameTypes, CmdTypes, HistTypes, WorkerInv, Cmds, NoCmd
<2>6. AnsweredDone'
  BY <1>b, <1>14 DEF SaveCommandResult, AnsweredDone, WorkerOwns, Busy, CmdTypes, HistTypes, WorkerInv, Cmds, NoCmd
<2>7. PendingInv'
  BY <1>b, <1>14 DEF SaveCommandResult, PendingInv, WorkerOwns, Busy, CmdTypes, QueueTypes, HistTypes, WorkerInv, Cmds, NoCmd
<2> QED
  BY <1>c, <2>2, <2>3, <2>4, <2>5, <2>6, <2>7
<1>15. ASSUME StoreResultCode PROVE IInv'
<2>1. Stays({"queued", "popping", "delivered"}) /\ UNCHANGED <<results, res, kept, log>>
  BY <1>b, <1>15 DEF StoreResultCode, CodeOfRun, Stays, WorkerOwns, Busy, CmdTypes, HistTypes
<2>2. Containers'
  BY <1>b, <2>1, Frame
<2>3. WorkerOwns'
  BY <1>b, <1>15 DEF StoreResultCode, CodeOfRun, WorkerOwns, Busy, CmdTypes, WorkerTypes, HistTypes, WorkerInv, Cmds, NoCmd
<2>4. Coded'
  BY <1>b, <1>15 DEF StoreResultCode, CodeOfRun, Coded, WorkerOwns, Busy, CmdTypes, HistTypes, WorkerInv, Cmds, NoCmd
<2>5. GameOwns'
  BY <1>b, <1>15 DEF StoreResultCode, CodeOfRun, GameOwns, NoRepeat, WorkerOwns, Busy, GameTypes, CmdTypes, HistTypes, WorkerInv, Cmds, NoCmd
<2>6. AnsweredDone'
  BY <1>b, <1>15 DEF StoreResultCode, CodeOfRun, AnsweredDone, WorkerOwns, Busy, CmdTypes, HistTypes, WorkerInv, Cmds, NoCmd
<2>7. PendingInv'
  BY <1>b, <1>15 DEF StoreResultCode, CodeOfRun, PendingInv, WorkerOwns, Busy, CmdTypes, QueueTypes, HistTypes, WorkerInv, Cmds, NoCmd
<2> QED
  BY <1>c, <2>2, <2>3, <2>4, <2>5, <2>6, <2>7
<1>16. ASSUME CheckPending PROVE IInv'
<2>1. Stays({"queued", "popping", "delivered"}) /\ UNCHANGED <<results, res, kept, log>>
  BY <1>b, <1>16 DEF CheckPending, NotedPending, Stays, WorkerOwns, Busy, CmdTypes, HistTypes
<2>2. Containers'
  BY <1>b, <2>1, Frame
<2>3. WorkerOwns'
  BY <1>b, <1>16 DEF CheckPending, NotedPending, WorkerOwns, Busy, CmdTypes, WorkerTypes, HistTypes, WorkerInv, Cmds, NoCmd
<2>4. Coded'
  BY <1>b, <1>16 DEF CheckPending, NotedPending, Coded, WorkerOwns, Busy, CmdTypes, HistTypes, WorkerInv, Cmds, NoCmd
<2>5. GameOwns'
  BY <1>b, <1>16 DEF CheckPending, NotedPending, GameOwns, NoRepeat, WorkerOwns, Busy, GameTypes, CmdTypes, HistTypes, WorkerInv, Cmds, NoCmd
<2>6. AnsweredDone'
  BY <1>b, <1>16 DEF CheckPending, NotedPending, AnsweredDone, WorkerOwns, Busy, CmdTypes, HistTypes, WorkerInv, Cmds, NoCmd
<2>7. PendingInv'
  BY <1>b, <1>16 DEF CheckPending, NotedPending, PendingInv, WorkerOwns, Busy, CmdTypes, QueueTypes, HistTypes, WorkerInv, Cmds, NoCmd
<2> QED
  BY <1>c, <2>2, <2>3, <2>4, <2>5, <2>6, <2>7
<1>17. ASSUME EmplaceResult PROVE IInv'
<2> DEFINE q == cmd[wcmd].queue_id
           s == results[q]
<2>1. /\ wpc = "emplace" /\ wcmd \in Cmds /\ q \in Queues /\ s \in Seq(Cmds)
      /\ fate[wcmd] = "running" /\ result_code[wcmd] # "NONE"
      /\ wpc' = "wait" /\ wcmd' = NoCmd
      /\ UNCHANGED <<command_counter, cmd, pending, result_code, work_queue, pending_commands,
                     game_work, res, kept, log>>
  BY <1>b, <1>17 DEF EmplaceResult, WorkerOwns, Coded, Busy, QueueTypes
<2>2. /\ results'[q] = RingEmplace(s, wcmd)
      /\ \A r \in Queues : r # q => results'[r] = results[r]
  <3>1. results' = [results EXCEPT ![q] = RingEmplace(results[q], wcmd)]
    BY <1>17 DEF EmplaceResult
  <3> QED
    BY <1>b, <2>1, <3>1 DEF QueueTypes
<2>3. /\ fate'[wcmd] = "queued"
      /\ \A d \in Cmds : d # wcmd =>
           fate'[d] = IF RingEvicts(s) /\ d = Head(s) THEN "evicted" ELSE fate[d]
  <3>1. fate' = [c \in Cmds |-> IF c = wcmd THEN "queued"
                               ELSE IF RingEvicts(s) /\ c = Head(s) THEN "evicted"
                               ELSE fate[c]]
    BY <1>17 DEF EmplaceResult
  <3> QED
    BY <2>1, <3>1
<2>4. /\ \A i \in 1..Len(s) : s[i] \in Cmds /\ fate[s[i]] = "queued" /\ cmd[s[i]].queue_id = q
      /\ NoRepeat(s)
  BY <1>b, <2>1 DEF Containers, QueueOwns
<2>5. RingEvicts(s) => Head(s) = s[1] /\ 1 \in 1..Len(s) /\ s # <<>>
  BY <2>1 DEF RingEvicts
<2>6. \A d \in Cmds : /\ fate[d] # "queued" /\ d # wcmd => fate'[d] = fate[d]
                      /\ d # wcmd => fate'[d] \in {fate[d], "evicted"}
  BY <2>3, <2>4, <2>5
<2>7. /\ NoRepeat(results'[q])
      /\ \A i \in 1..Len(results'[q]) : fate'[results'[q][i]] = "queued"
                                        /\ cmd[results'[q][i]].queue_id = q
  <3>1. \A i \in 1..Len(s) : s[i] # wcmd
    BY <2>1, <2>4
  <3>2. /\ NoRepeat(RingEmplace(s, wcmd))
        /\ \A i \in 1..Len(RingEmplace(s, wcmd)) :
              \/ RingEmplace(s, wcmd)[i] = wcmd
              \/ \E j \in 1..Len(s) : /\ RingEmplace(s, wcmd)[i] = s[j]
                                      /\ RingEvicts(s) => j # 1
    BY <2>1, <2>4, <3>1, RingElements
  <3>3. \A j \in 1..Len(s) : (RingEvicts(s) => j # 1) => fate'[s[j]] = "queued"
    BY <2>3, <2>4, <2>5, <3>1 DEF NoRepeat
  <3> QED
    BY <2>2, <2>3, <2>4, <3>2, <3>3
<2>8. \A r \in Queues : r # q =>
        /\ NoRepeat(results[r])
        /\ \A i \in 1..Len(results[r]) : fate'[results[r][i]] = "queued"
                                         /\ cmd[results[r][i]].queue_id = r
  <3> SUFFICES ASSUME NEW r \in Queues, r # q
               PROVE  /\ NoRepeat(results[r])
                      /\ \A i \in 1..Len(results[r]) : fate'[results[r][i]] = "queued"
                                                       /\ cmd[results[r][i]].queue_id = r
    OBVIOUS
  <3>1. /\ NoRepeat(results[r])
        /\ \A i \in 1..Len(results[r]) : /\ fate[results[r][i]] = "queued"
                                         /\ cmd[results[r][i]].queue_id = r
                                         /\ results[r][i] \in Cmds
    BY <1>b DEF Containers, QueueOwns, QueueTypes
  <3>2. \A i \in 1..Len(results[r]) : RingEvicts(s) => results[r][i] # Head(s)
    BY <2>4, <2>5, <3>1
  <3> QED
    BY <2>1, <2>3, <3>1, <3>2
<2>9. QueueOwns'
  BY <2>1, <2>2, <2>7, <2>8 DEF QueueOwns
<2>10. Stays({"popping"}) /\ Stays({"delivered"})
  BY <2>1, <2>6 DEF Stays
<2>11. Containers'
  BY <1>b, <2>1, <2>9, <2>10, PollerFrame, LogFrame DEF Containers
<2>12. WorkerOwns' /\ Coded' /\ AnsweredDone'
  BY <1>b, <2>1, <2>3, <2>6 DEF WorkerOwns, Coded, AnsweredDone, Busy, Cmds, WorkerTypes, NoCmd, WorkerInv
<2>13. GameOwns'
  BY <1>b, <2>1, <2>3, <2>6 DEF GameOwns, GameTypes
<2>14. PendingInv'
  BY <1>b, <2>1, <2>3, <2>6 DEF PendingInv, QueueTypes
<2> QED
  BY <1>c, <2>11, <2>12, <2>13, <2>14
<1>18. ASSUME EmplaceNoQueue PROVE IInv'
<2>1. Stays({"queued", "popping", "delivered"}) /\ UNCHANGED <<results, res, kept, log>>
  BY <1>b, <1>18 DEF EmplaceNoQueue, Stays, WorkerOwns, Busy, CmdTypes, HistTypes
<2>2. Containers'
  BY <1>b, <2>1, Frame
<2>3. WorkerOwns'
  BY <1>b, <1>18 DEF EmplaceNoQueue, WorkerOwns, Busy, CmdTypes, WorkerTypes, HistTypes, WorkerInv, Cmds, NoCmd
<2>4. Coded'
  BY <1>b, <1>18 DEF EmplaceNoQueue, Coded, WorkerOwns, Busy, CmdTypes, HistTypes, WorkerInv, Cmds, NoCmd
<2>5. GameOwns'
  BY <1>b, <1>18 DEF EmplaceNoQueue, GameOwns, NoRepeat, WorkerOwns, Busy, GameTypes, CmdTypes, HistTypes, WorkerInv, Cmds, NoCmd
<2>6. AnsweredDone'
  BY <1>b, <1>18 DEF EmplaceNoQueue, AnsweredDone, WorkerOwns, Busy, CmdTypes, HistTypes, WorkerInv, Cmds, NoCmd
<2>7. PendingInv'
  BY <1>b, <1>18 DEF EmplaceNoQueue, PendingInv, WorkerOwns, Busy, CmdTypes, QueueTypes, HistTypes, WorkerInv, Cmds, NoCmd
<2> QED
  BY <1>c, <2>2, <2>3, <2>4, <2>5, <2>6, <2>7
<1>19. ASSUME NEW throws \in BOOLEAN, GameExecutes(throws) PROVE IInv'
<2>1. Stays({"queued", "popping", "delivered"}) /\ UNCHANGED <<results, res, kept, log>>
  BY <1>b, <1>19 DEF GameExecutes, Stays, WorkerOwns, Busy, CmdTypes, HistTypes
<2>2. Containers'
  BY <1>b, <2>1, Frame
<2>3. WorkerOwns'
  BY <1>b, <1>19 DEF GameExecutes, WorkerOwns, Busy, CmdTypes, WorkerTypes, HistTypes, WorkerInv, Cmds, NoCmd
<2>4. Coded'
  BY <1>b, <1>19 DEF GameExecutes, Coded, WorkerOwns, Busy, CmdTypes, HistTypes, WorkerInv, Cmds, NoCmd
<2>5. GameOwns'
  BY <1>b, <1>19 DEF GameExecutes, GameOwns, NoRepeat, WorkerOwns, Busy, GameTypes, CmdTypes, HistTypes, WorkerInv, Cmds, NoCmd
<2>6. AnsweredDone'
  BY <1>b, <1>19 DEF GameExecutes, AnsweredDone, WorkerOwns, Busy, CmdTypes, HistTypes, WorkerInv, Cmds, NoCmd
<2>7. PendingInv'
  BY <1>b, <1>19 DEF GameExecutes, PendingInv, WorkerOwns, Busy, CmdTypes, QueueTypes, HistTypes, WorkerInv, Cmds, NoCmd
<2> QED
  BY <1>c, <2>2, <2>3, <2>4, <2>5, <2>6, <2>7
<1>20. ASSUME GameClearsPending PROVE IInv'
<2>1. Stays({"queued", "popping", "delivered"}) /\ UNCHANGED <<results, res, kept, log>>
  BY <1>b, <1>20 DEF GameClearsPending, ClearedPending, Stays, WorkerOwns, Busy, CmdTypes, HistTypes
<2>2. Containers'
  BY <1>b, <2>1, Frame
<2>3. WorkerOwns'
  BY <1>b, <1>20 DEF GameClearsPending, ClearedPending, WorkerOwns, Busy, CmdTypes, WorkerTypes, HistTypes, WorkerInv, Cmds, NoCmd
<2>4. Coded'
  BY <1>b, <1>20 DEF GameClearsPending, ClearedPending, Coded, WorkerOwns, Busy, CmdTypes, HistTypes, WorkerInv, Cmds, NoCmd
<2>5. GameOwns'
  BY <1>b, <1>20 DEF GameClearsPending, ClearedPending, GameOwns, NoRepeat, WorkerOwns, Busy, GameTypes, CmdTypes, HistTypes, WorkerInv, Cmds, NoCmd
<2>6. AnsweredDone'
  BY <1>b, <1>20 DEF GameClearsPending, ClearedPending, AnsweredDone, WorkerOwns, Busy, CmdTypes, HistTypes, WorkerInv, Cmds, NoCmd
<2>7. PendingInv'
  BY <1>b, <1>20 DEF GameClearsPending, ClearedPending, PendingInv, WorkerOwns, Busy, CmdTypes, QueueTypes, HistTypes, WorkerInv, Cmds, NoCmd
<2> QED
  BY <1>c, <2>2, <2>3, <2>4, <2>5, <2>6, <2>7
<1>21. ASSUME NEW dies \in BOOLEAN, GameUsesFreed(dies) PROVE IInv'
<2>1. Stays({"queued", "popping", "delivered"}) /\ UNCHANGED <<results, res, kept, log>>
  BY <1>b, <1>21 DEF GameUsesFreed, Stays, WorkerOwns, Busy, CmdTypes, HistTypes
<2>2. Containers'
  BY <1>b, <2>1, Frame
<2>3. WorkerOwns'
  BY <1>b, <1>21 DEF GameUsesFreed, WorkerOwns, Busy, CmdTypes, WorkerTypes, HistTypes, WorkerInv, Cmds, NoCmd
<2>4. Coded'
  BY <1>b, <1>21 DEF GameUsesFreed, Coded, WorkerOwns, Busy, CmdTypes, HistTypes, WorkerInv, Cmds, NoCmd
<2>5. GameOwns'
  BY <1>b, <1>21 DEF GameUsesFreed, GameOwns, NoRepeat, WorkerOwns, Busy, GameTypes, CmdTypes, HistTypes, WorkerInv, Cmds, NoCmd
<2>6. AnsweredDone'
  BY <1>b, <1>21 DEF GameUsesFreed, AnsweredDone, WorkerOwns, Busy, CmdTypes, HistTypes, WorkerInv, Cmds, NoCmd
<2>7. PendingInv'
  BY <1>b, <1>21 DEF GameUsesFreed, PendingInv, WorkerOwns, Busy, CmdTypes, QueueTypes, HistTypes, WorkerInv, Cmds, NoCmd
<2> QED
  BY <1>c, <2>2, <2>3, <2>4, <2>5, <2>6, <2>7
<1>22. ASSUME NEW p \in Pollers, FlushFinds(p) PROVE IInv'
<2>1. Stays({"queued", "popping", "delivered"}) /\ UNCHANGED <<results, res, kept, log>>
  BY <1>b, <1>22 DEF FlushFinds, Stays, WorkerOwns, Busy, CmdTypes, HistTypes
<2>2. Containers'
  BY <1>b, <2>1, Frame
<2>3. WorkerOwns'
  BY <1>b, <1>22 DEF FlushFinds, WorkerOwns, Busy, CmdTypes, WorkerTypes, HistTypes, WorkerInv, Cmds, NoCmd
<2>4. Coded'
  BY <1>b, <1>22 DEF FlushFinds, Coded, WorkerOwns, Busy, CmdTypes, HistTypes, WorkerInv, Cmds, NoCmd
<2>5. GameOwns'
  BY <1>b, <1>22 DEF FlushFinds, GameOwns, NoRepeat, WorkerOwns, Busy, GameTypes, CmdTypes, HistTypes, WorkerInv, Cmds, NoCmd
<2>6. AnsweredDone'
  BY <1>b, <1>22 DEF FlushFinds, AnsweredDone, WorkerOwns, Busy, CmdTypes, HistTypes, WorkerInv, Cmds, NoCmd
<2>7. PendingInv'
  BY <1>b, <1>22 DEF FlushFinds, PendingInv, WorkerOwns, Busy, CmdTypes, QueueTypes, HistTypes, WorkerInv, Cmds, NoCmd
<2> QED
  BY <1>c, <2>2, <2>3, <2>4, <2>5, <2>6, <2>7
<1>23. ASSUME NEW p \in Pollers, PopTimesOut(p) PROVE IInv'
<2>1. Stays({"queued", "popping", "delivered"}) /\ UNCHANGED <<results, res, kept, log>>
  BY <1>b, <1>23 DEF PopTimesOut, Stays, WorkerOwns, Busy, CmdTypes, HistTypes
<2>2. Containers'
  BY <1>b, <2>1, Frame
<2>3. WorkerOwns'
  BY <1>b, <1>23 DEF PopTimesOut, WorkerOwns, Busy, CmdTypes, WorkerTypes, HistTypes, WorkerInv, Cmds, NoCmd
<2>4. Coded'
  BY <1>b, <1>23 DEF PopTimesOut, Coded, WorkerOwns, Busy, CmdTypes, HistTypes, WorkerInv, Cmds, NoCmd
<2>5. GameOwns'
  BY <1>b, <1>23 DEF PopTimesOut, GameOwns, NoRepeat, WorkerOwns, Busy, GameTypes, CmdTypes, HistTypes, WorkerInv, Cmds, NoCmd
<2>6. AnsweredDone'
  BY <1>b, <1>23 DEF PopTimesOut, AnsweredDone, WorkerOwns, Busy, CmdTypes, HistTypes, WorkerInv, Cmds, NoCmd
<2>7. PendingInv'
  BY <1>b, <1>23 DEF PopTimesOut, PendingInv, WorkerOwns, Busy, CmdTypes, QueueTypes, HistTypes, WorkerInv, Cmds, NoCmd
<2> QED
  BY <1>c, <2>2, <2>3, <2>4, <2>5, <2>6, <2>7
<1>24. ASSUME NEW p \in Pollers, PopBegins(p) PROVE IInv'
<2>1. Stays({"queued", "popping", "delivered"}) /\ UNCHANGED <<results, res, kept, log>>
  BY <1>b, <1>24 DEF PopBegins, Stays, WorkerOwns, Busy, CmdTypes, HistTypes
<2>2. Containers'
  BY <1>b, <2>1, Frame
<2>3. WorkerOwns'
  BY <1>b, <1>24 DEF PopBegins, WorkerOwns, Busy, CmdTypes, WorkerTypes, HistTypes, WorkerInv, Cmds, NoCmd
<2>4. Coded'
  BY <1>b, <1>24 DEF PopBegins, Coded, WorkerOwns, Busy, CmdTypes, HistTypes, WorkerInv, Cmds, NoCmd
<2>5. GameOwns'
  BY <1>b, <1>24 DEF PopBegins, GameOwns, NoRepeat, WorkerOwns, Busy, GameTypes, CmdTypes, HistTypes, WorkerInv, Cmds, NoCmd
<2>6. AnsweredDone'
  BY <1>b, <1>24 DEF PopBegins, AnsweredDone, WorkerOwns, Busy, CmdTypes, HistTypes, WorkerInv, Cmds, NoCmd
<2>7. PendingInv'
  BY <1>b, <1>24 DEF PopBegins, PendingInv, WorkerOwns, Busy, CmdTypes, QueueTypes, HistTypes, WorkerInv, Cmds, NoCmd
<2> QED
  BY <1>c, <2>2, <2>3, <2>4, <2>5, <2>6, <2>7
<1>25. ASSUME NEW p \in Pollers, PopTakes(p) PROVE IInv'
<2> DEFINE q == PollerQueue[p]
           s == results[q]
           c == s[Len(s)]
<2>1. /\ q \in Queues /\ s \in Seq(Cmds) /\ Len(s) > 0 /\ Len(s) \in 1..Len(s) /\ c \in Cmds
      /\ UNCHANGED <<command_counter, cmd, pending, result_code, work_queue, wpc, wcmd,
                     pending_commands, game_work, log>>
  BY <1>b, <1>25 DEF PopTakes, QueueTypes
<2>2. /\ results'[q] = Front(s)
      /\ \A r \in Queues : r # q => results'[r] = results[r]
  <3>1. results' = [results EXCEPT ![q] = Front(results[q])]
    BY <1>25 DEF PopTakes
  <3> QED
    BY <1>b, <2>1, <3>1 DEF QueueTypes
<2>3. fate'[c] = "popping" /\ \A d \in Cmds : d # c => fate'[d] = fate[d]
  <3>1. fate' = [fate EXCEPT ![c] = "popping"]
    BY <1>25 DEF PopTakes
  <3> QED
    BY <1>b, <2>1, <3>1 DEF HistTypes
<2>4. /\ \A i \in 1..Len(s) : s[i] \in Cmds /\ fate[s[i]] = "queued" /\ cmd[s[i]].queue_id = q
      /\ NoRepeat(s)
  BY <1>b, <2>1 DEF Containers, QueueOwns
<2>5. fate[c] = "queued" /\ cmd[c].queue_id = q
  BY <2>1, <2>4
<2> HIDE DEF c
<2>6. QueueOwns'
  <3>1. Len(Front(s)) = Len(s) - 1 /\ \A i \in 1..Len(s) - 1 : Front(s)[i] = s[i]
    BY <2>1, FrontType
  <3>2. \A i \in 1..Len(s) - 1 : i \in 1..Len(s) /\ s[i] # c
    BY <2>1, <2>4 DEF NoRepeat, c
  <3>a. \A i \in 1..Len(s) - 1 : fate'[s[i]] = "queued" /\ cmd[s[i]].queue_id = q
    BY <2>3, <2>4, <3>2
  <3>b. NoRepeat(Front(s))
    BY <2>4, <3>1, <3>2 DEF NoRepeat
  <3>3. /\ NoRepeat(Front(s))
        /\ \A i \in 1..Len(Front(s)) : fate'[Front(s)[i]] = "queued"
                                       /\ cmd[Front(s)[i]].queue_id = q
    BY <3>1, <3>a, <3>b
  <3>4. \A r \in Queues : r # q =>
          /\ NoRepeat(results[r])
          /\ \A i \in 1..Len(results[r]) : fate'[results[r][i]] = "queued"
                                           /\ cmd[results[r][i]].queue_id = r
    <4> SUFFICES ASSUME NEW r \in Queues, r # q
                 PROVE  /\ NoRepeat(results[r])
                        /\ \A i \in 1..Len(results[r]) : fate'[results[r][i]] = "queued"
                                                         /\ cmd[results[r][i]].queue_id = r
      OBVIOUS
    <4>1. /\ NoRepeat(results[r])
          /\ \A i \in 1..Len(results[r]) : /\ results[r][i] \in Cmds
                                           /\ fate[results[r][i]] = "queued"
                                           /\ cmd[results[r][i]].queue_id = r
      BY <1>b DEF Containers, QueueOwns, QueueTypes
    <4> QED
      BY <2>3, <2>5, <4>1
  <3> QED
    BY <2>1, <2>2, <3>3, <3>4 DEF QueueOwns
<2>7. \A r \in Pollers :
        /\ res[r] \in Seq(Cmds) /\ kept[r] \in Seq(Cmds)
        /\ \A i \in 1..Len(res[r]) : res[r][i] # c /\ fate'[res[r][i]] = "popping"
        /\ \A i \in 1..Len(kept[r]) : kept[r][i] # c /\ fate'[kept[r][i]] = "popping"
  <3>1. \A r \in Pollers : res[r] \in Seq(Cmds) /\ kept[r] \in Seq(Cmds)
    BY <1>b DEF PollTypes
  <3>2. \A r \in Pollers : /\ \A i \in 1..Len(res[r]) : fate[res[r][i]] = "popping"
                           /\ \A i \in 1..Len(kept[r]) : fate[kept[r][i]] = "popping"
    BY <1>b DEF Containers, PollerOwns
  <3>3. \A d \in Cmds : fate[d] = "popping" => d # c /\ fate'[d] = "popping"
    BY <2>3, <2>5
  <3>4. \A r \in Pollers : /\ \A i \in 1..Len(res[r]) : res[r][i] \in Cmds
                           /\ \A i \in 1..Len(kept[r]) : kept[r][i] \in Cmds
    BY <3>1
  <3> QED
    BY <3>1, <3>2, <3>3, <3>4
<2>8. /\ \A r \in Pollers : r # p => res'[r] = res[r] /\ kept'[r] = kept[r]
      /\ pending[c] => res'[p] = res[p] /\ kept'[p] = Append(kept[p], c)
      /\ ~pending[c] => res'[p] = Append(res[p], c) /\ kept'[p] = kept[p]
  <3>1. /\ res' = IF pending[c] THEN res ELSE [res EXCEPT ![p] = Append(res[p], c)]
        /\ kept' = IF pending[c] THEN [kept EXCEPT ![p] = Append(kept[p], c)] ELSE kept
    BY <1>25 DEF PopTakes, Keeps, c
  <3> QED
    BY <1>b, <3>1 DEF PollTypes
<2>9. /\ NoRepeat(res'[p]) /\ NoRepeat(kept'[p])
      /\ \A i \in 1..Len(res'[p]) : \/ res'[p][i] = c /\ ~pending[c]
                                    \/ \E j \in 1..Len(res[p]) : res'[p][i] = res[p][j]
      /\ \A i \in 1..Len(kept'[p]) : \/ kept'[p][i] = c /\ pending[c]
                                     \/ \E j \in 1..Len(kept[p]) : kept'[p][i] = kept[p][j]
  <3>1. NoRepeat(res[p]) /\ NoRepeat(kept[p])
    BY <1>b DEF Containers, PollerOwns
  <3>a. res[p] \in Seq(Cmds) /\ \A i \in 1..Len(res[p]) : res[p][i] # c
    BY <2>7
  <3>2. /\ NoRepeat(Append(res[p], c))
        /\ \A i \in 1..Len(Append(res[p], c)) :
             \/ Append(res[p], c)[i] = c
             \/ \E j \in 1..Len(res[p]) : Append(res[p], c)[i] = res[p][j]
    BY <2>1, <3>1, <3>a, AppendElements
  <3>3. /\ NoRepeat(Append(kept[p], c))
        /\ \A i \in 1..Len(Append(kept[p], c)) :
             \/ Append(kept[p], c)[i] = c
             \/ \E j \in 1..Len(kept[p]) : Append(kept[p], c)[i] = kept[p][j]
    <4>1. kept[p] \in Seq(Cmds) /\ \A i \in 1..Len(kept[p]) : kept[p][i] # c
      BY <2>7
    <4> QED
      BY <2>1, <3>1, <4>1, AppendElements
  <3>4. CASE pending[c]
    BY <2>8, <3>1, <3>3, <3>4
  <3>5. CASE ~pending[c]
    BY <2>8, <3>1, <3>2, <3>5
  <3> QED
    BY <3>4, <3>5
<2>10. PollerOwns'
  <3> SUFFICES ASSUME NEW r \in Pollers
               PROVE /\ NoRepeat(res'[r]) /\ NoRepeat(kept'[r]) /\ Apart(res'[r], kept'[r])
                     /\ \A i \in 1..Len(res'[r]) : /\ fate'[res'[r][i]] = "popping"
                                                   /\ cmd[res'[r][i]].queue_id = PollerQueue[r]
                                                   /\ ~pending[res'[r][i]]
                     /\ \A i \in 1..Len(kept'[r]) : /\ fate'[kept'[r][i]] = "popping"
                                                    /\ cmd[kept'[r][i]].queue_id = PollerQueue[r]
    BY <2>1 DEF PollerOwns
  <3>1. /\ NoRepeat(res[r]) /\ NoRepeat(kept[r]) /\ Apart(res[r], kept[r])
        /\ \A i \in 1..Len(res[r]) : cmd[res[r][i]].queue_id = PollerQueue[r]
        /\ \A i \in 1..Len(kept[r]) : cmd[kept[r][i]].queue_id = PollerQueue[r]
    BY <1>b DEF Containers, PollerOwns
  <3>2. \A i \in 1..Len(res[r]) : ~pending[res[r][i]]
    BY <1>b, Zenon DEF Containers, PollerOwns
  <3>3. CASE r # p
    BY <2>7, <2>8, <3>1, <3>2, <3>3
  <3>4. CASE r = p
    <4>1. Apart(res'[p], kept'[p])
      <5>1. \A i \in 1..Len(res[p]) : res[p][i] # c
        BY <2>7
      <5>2. \A i \in 1..Len(kept[p]) : kept[p][i] # c
        BY <2>7
      <5>3. Apart(res[p], kept[p])
        BY <3>1, <3>4
      <5>4. CASE pending[c]
        <6>1. res'[p] = res[p]
          BY <2>8, <5>4
        <6>2. \A i \in 1..Len(kept'[p]) : \/ kept'[p][i] = c
                                          \/ \E j \in 1..Len(kept[p]) : kept'[p][i] = kept[p][j]
          BY <2>9
        <6> QED
          BY <5>1, <5>3, <6>1, <6>2 DEF Apart
      <5>5. CASE ~pending[c]
        <6>1. kept'[p] = kept[p]
          BY <2>8, <5>5
        <6>2. \A i \in 1..Len(res'[p]) : \/ res'[p][i] = c
                                         \/ \E j \in 1..Len(res[p]) : res'[p][i] = res[p][j]
          BY <2>9
        <6> QED
          BY <5>2, <5>3, <6>1, <6>2 DEF Apart
      <5> QED
        BY <5>4, <5>5
    <4>2. \A i \in 1..Len(res'[p]) : /\ fate'[res'[p][i]] = "popping"
                                     /\ cmd[res'[p][i]].queue_id = q
      BY <2>3, <2>5, <2>7, <2>9, <3>1, <3>4
    <4>3. \A i \in 1..Len(res'[p]) : ~pending[res'[p][i]]
      BY <2>9, <3>2, <3>4
    <4>4. \A i \in 1..Len(kept'[p]) : /\ fate'[kept'[p][i]] = "popping"
                                      /\ cmd[kept'[p][i]].queue_id = q
      <5>1. \A i \in 1..Len(kept[p]) : fate'[kept[p][i]] = "popping" /\ cmd[kept[p][i]].queue_id = q
        BY <2>7, <3>1, <3>4
      <5> QED
        BY <2>3, <2>5, <2>9, <5>1
    <4> QED
      BY <2>9, <3>4, <4>1, <4>2, <4>3, <4>4
  <3> QED
    BY <3>3, <3>4
<2>11. PollersApart'
  <3>1. PollersApart
    BY <1>b DEF Containers
  <3>2. ASSUME NEW r1 \in Pollers, NEW r2 \in Pollers, r1 # r2
        PROVE  Apart(res'[r1], res'[r2]) /\ Apart(res'[r1], kept'[r2])
               /\ Apart(kept'[r1], kept'[r2])
    <4>1. /\ Apart(res[r1], res[r2]) /\ Apart(res[r1], kept[r2]) /\ Apart(kept[r1], kept[r2])
          /\ Apart(res[r2], res[r1]) /\ Apart(res[r2], kept[r1]) /\ Apart(kept[r2], kept[r1])
      BY <3>1, <3>2 DEF PollersApart
    <4>2. CASE r1 # p /\ r2 # p
      BY <2>8, <4>1, <4>2
    <4>3. CASE r1 = p
      <5>1. res'[r2] = res[r2] /\ kept'[r2] = kept[r2]
        BY <2>8, <3>2, <4>3
      <5>2. /\ \A i \in 1..Len(res[r2]) : res[r2][i] # c
            /\ \A i \in 1..Len(kept[r2]) : kept[r2][i] # c
        BY <2>7
      <5>3. /\ \A i \in 1..Len(res'[r1]) : \/ res'[r1][i] = c
                                           \/ \E j \in 1..Len(res[r1]) : res'[r1][i] = res[r1][j]
            /\ \A i \in 1..Len(kept'[r1]) : \/ kept'[r1][i] = c
                                            \/ \E j \in 1..Len(kept[r1]) : kept'[r1][i] = kept[r1][j]
        BY <2>9, <4>3
      <5> QED
        BY <4>1, <5>1, <5>2, <5>3 DEF Apart
    <4>4. CASE r2 = p
      <5>1. res'[r1] = res[r1] /\ kept'[r1] = kept[r1]
        BY <2>8, <3>2, <4>4
      <5>2. /\ \A i \in 1..Len(res[r1]) : res[r1][i] # c
            /\ \A i \in 1..Len(kept[r1]) : kept[r1][i] # c
        BY <2>7
      <5>3. /\ \A i \in 1..Len(res'[r2]) : \/ res'[r2][i] = c
                                           \/ \E j \in 1..Len(res[r2]) : res'[r2][i] = res[r2][j]
            /\ \A i \in 1..Len(kept'[r2]) : \/ kept'[r2][i] = c
                                            \/ \E j \in 1..Len(kept[r2]) : kept'[r2][i] = kept[r2][j]
        BY <2>9, <4>4
      <5> QED
        BY <4>1, <5>1, <5>2, <5>3 DEF Apart
    <4> QED
      BY <4>2, <4>3, <4>4
  <3> QED
    BY <3>2 DEF PollersApart
<2>12. LogOwns'
  <3>1. Stays({"delivered"})
    BY <2>1, <2>3, <2>5 DEF Stays
  <3> QED
    BY <1>b, <2>1, <3>1, LogFrame DEF Containers
<2>13. WorkerOwns' /\ Coded' /\ AnsweredDone'
  BY <1>b, <2>1, <2>3, <2>5 DEF WorkerOwns, Coded, AnsweredDone, Busy, Cmds, WorkerTypes, NoCmd, WorkerInv
<2>14. GameOwns'
  <3>1. NoRepeat(game_work)
    BY <1>b DEF GameOwns
  <3>2. \A i \in 1..Len(game_work) : pending[game_work[i]]
    BY <1>b, Zenon DEF GameOwns
  <3>3. \A i \in 1..Len(game_work) : /\ game_work[i] \in Cmds
                                     /\ fate[game_work[i]] \notin {"unused", "work"}
                                     /\ wpc = "run" => game_work[i] # wcmd
    BY <1>b DEF GameOwns, GameTypes
  <3>4. \A i \in 1..Len(game_work) : fate'[game_work[i]] \notin {"unused", "work"}
    BY <2>1, <2>3, <3>3
  <3> QED
    BY <2>1, <3>1, <3>2, <3>3, <3>4 DEF GameOwns
<2>15. PendingInv'
  BY <1>b, <2>1, <2>3, <2>5 DEF PendingInv, QueueTypes
<2> QED
  BY <1>c, <2>6, <2>10, <2>11, <2>12, <2>13, <2>14, <2>15 DEF Containers
<1>26. ASSUME NEW p \in Pollers, PopEnds(p) PROVE IInv'
<2> DEFINE q == PollerQueue[p]
           k == kept[p]
<2>1. /\ q \in Queues /\ k \in Seq(Cmds)
      /\ results[q] = <<>>
      /\ UNCHANGED <<command_counter, cmd, pending, result_code, work_queue, wpc, wcmd,
                     pending_commands, game_work, res, log>>
  BY <1>b, <1>26 DEF PopEnds, PollTypes
<2>2. /\ results'[q] = k /\ \A r \in Queues : r # q => results'[r] = results[r]
      /\ kept'[p] = <<>> /\ \A r \in Pollers : r # p => kept'[r] = kept[r]
  <3>1. results' = [results EXCEPT ![q] = k] /\ kept' = [kept EXCEPT ![p] = <<>>]
    BY <1>26 DEF PopEnds, PutsBack
  <3> QED
    BY <1>b, <2>1, <3>1 DEF QueueTypes, PollTypes
<2>3. \A d \in Cmds : fate'[d] = IF d \in ToSet(k) THEN "queued" ELSE fate[d]
  BY <1>26 DEF PopEnds
<2>4. \A d \in Cmds : d \in ToSet(k) <=> \E i \in 1..Len(k) : k[i] = d
  BY <2>1, InToSet
<2>5. /\ NoRepeat(k)
      /\ \A i \in 1..Len(k) : k[i] \in Cmds /\ fate[k[i]] = "popping" /\ cmd[k[i]].queue_id = q
  BY <1>b, <2>1 DEF Containers, PollerOwns
<2>6. \A d \in Cmds : /\ fate[d] # "popping" => fate'[d] = fate[d]
                      /\ fate'[d] \in {fate[d], "queued"}
  BY <2>3, <2>4, <2>5
<2>7. QueueOwns'
  <3>1. \A i \in 1..Len(k) : fate'[k[i]] = "queued"
    BY <2>3, <2>4, <2>5
  <3>2. \A r \in Queues : r # q =>
          /\ NoRepeat(results[r])
          /\ \A i \in 1..Len(results[r]) : fate'[results[r][i]] = "queued"
                                           /\ cmd[results[r][i]].queue_id = r
    BY <1>b, <2>6 DEF Containers, QueueOwns, QueueTypes
  <3> QED
    BY <2>1, <2>2, <2>5, <3>1, <3>2 DEF QueueOwns
<2>8. PollerOwns'
  <3> SUFFICES ASSUME NEW r \in Pollers
               PROVE /\ NoRepeat(res[r]) /\ NoRepeat(kept'[r]) /\ Apart(res[r], kept'[r])
                     /\ \A i \in 1..Len(res[r]) : /\ fate'[res[r][i]] = "popping"
                                                  /\ cmd[res[r][i]].queue_id = PollerQueue[r]
                                                  /\ ~pending[res[r][i]]
                     /\ \A i \in 1..Len(kept'[r]) : /\ fate'[kept'[r][i]] = "popping"
                                                    /\ cmd[kept'[r][i]].queue_id = PollerQueue[r]
    BY <2>1 DEF PollerOwns
  <3>1. /\ NoRepeat(res[r]) /\ NoRepeat(kept[r]) /\ Apart(res[r], kept[r])
        /\ \A i \in 1..Len(res[r]) : /\ res[r][i] \in Cmds /\ fate[res[r][i]] = "popping"
                                     /\ cmd[res[r][i]].queue_id = PollerQueue[r]
        /\ \A i \in 1..Len(kept[r]) : /\ kept[r][i] \in Cmds /\ fate[kept[r][i]] = "popping"
                                      /\ cmd[kept[r][i]].queue_id = PollerQueue[r]
    BY <1>b DEF Containers, PollerOwns, PollTypes
  <3>2. \A i \in 1..Len(res[r]) : ~pending[res[r][i]]
    BY <1>b, Zenon DEF Containers, PollerOwns
  <3>3. \A i \in 1..Len(res[r]) : res[r][i] \notin ToSet(k)
    <4>1. CASE r = p
      BY <2>4, <3>1, <4>1 DEF Apart
    <4>2. CASE r # p
      <5>1. Apart(res[r], k)
        BY <1>b, <4>2 DEF Containers, PollersApart
      <5> QED
        BY <2>4, <3>1, <5>1 DEF Apart
    <4> QED
      BY <4>1, <4>2
  <3>4. r # p => \A i \in 1..Len(kept[r]) : kept[r][i] \notin ToSet(k)
    <4>1. r # p => Apart(k, kept[r])
      BY <1>b DEF Containers, PollersApart
    <4> QED
      BY <2>4, <3>1, <4>1 DEF Apart
  <3>a. \A i \in 1..Len(res[r]) : fate'[res[r][i]] = "popping"
    BY <2>3, <3>1, <3>3
  <3>5. CASE r = p
    <4>1. kept'[r] = <<>> /\ 1..Len(kept'[r]) = {}
      BY <2>2, <3>5
    <4>2. NoRepeat(kept'[r]) /\ Apart(res[r], kept'[r])
      BY <4>1 DEF NoRepeat, Apart
    <4> QED
      BY <3>1, <3>2, <3>a, <4>1, <4>2
  <3>6. CASE r # p
    <4>1. kept'[r] = kept[r]
      BY <2>2, <3>6
    <4>2. \A i \in 1..Len(kept[r]) : fate'[kept[r][i]] = "popping"
      BY <2>3, <3>1, <3>4, <3>6
    <4> QED
      BY <3>1, <3>2, <3>a, <4>1, <4>2
  <3> QED
    BY <3>5, <3>6
<2>9. PollersApart'
  <3>1. PollersApart
    BY <1>b DEF Containers
  <3>2. ASSUME NEW r1 \in Pollers, NEW r2 \in Pollers, r1 # r2
        PROVE  Apart(res'[r1], res'[r2]) /\ Apart(res'[r1], kept'[r2])
               /\ Apart(kept'[r1], kept'[r2])
    <4>1. /\ Apart(res[r1], res[r2]) /\ Apart(res[r1], kept[r2]) /\ Apart(kept[r1], kept[r2])
      BY <3>1, <3>2 DEF PollersApart
    <4>2. /\ res'[r1] \in {res[r1], <<>>} /\ kept'[r1] \in {kept[r1], <<>>}
          /\ res'[r2] \in {res[r2], <<>>} /\ kept'[r2] \in {kept[r2], <<>>}
      BY <2>1, <2>2
    <4> QED
      BY <4>1, <4>2, ApartEmptied
  <3> QED
    BY <3>2 DEF PollersApart
<2>10. LogOwns'
  <3>1. Stays({"delivered"})
    BY <2>1, <2>6 DEF Stays
  <3> QED
    BY <1>b, <2>1, <3>1, LogFrame DEF Containers
<2>11. WorkerOwns' /\ Coded' /\ AnsweredDone'
  BY <1>b, <2>1, <2>6 DEF WorkerOwns, Coded, AnsweredDone, Busy, Cmds, WorkerTypes, NoCmd, WorkerInv
<2>12. GameOwns'
  <3>1. NoRepeat(game_work)
    BY <1>b DEF GameOwns
  <3>2. \A i \in 1..Len(game_work) : pending[game_work[i]]
    BY <1>b, Zenon DEF GameOwns
  <3>3. \A i \in 1..Len(game_work) : /\ game_work[i] \in Cmds
                                     /\ fate[game_work[i]] \notin {"unused", "work"}
                                     /\ wpc = "run" => game_work[i] # wcmd
    BY <1>b DEF GameOwns, GameTypes
  <3>4. \A i \in 1..Len(game_work) : fate'[game_work[i]] \notin {"unused", "work"}
    BY <2>6, <3>3
  <3> QED
    BY <2>1, <3>1, <3>2, <3>3, <3>4 DEF GameOwns
<2>13. PendingInv'
  BY <1>b, <2>1, <2>6 DEF PendingInv, QueueTypes
<2> QED
  BY <1>c, <2>7, <2>8, <2>9, <2>10, <2>11, <2>12, <2>13 DEF Containers
<1>27. ASSUME NEW p \in Pollers, NEW dies \in BOOLEAN, PopUsesFreed(p, dies) PROVE IInv'
<2> DEFINE k == kept[p]
<2>1. /\ k \in Seq(Cmds)
      /\ UNCHANGED <<command_counter, cmd, pending, result_code, work_queue, wpc, wcmd,
                     pending_commands, game_work, results, res, log>>
  BY <1>b, <1>27 DEF PopUsesFreed, PollTypes
<2>2. kept'[p] = <<>> /\ \A r \in Pollers : r # p => kept'[r] = kept[r]
  <3>1. kept' = [kept EXCEPT ![p] = <<>>]
    BY <1>27 DEF PopUsesFreed
  <3> QED
    BY <1>b, <2>1, <3>1 DEF PollTypes
<2>3. \A d \in Cmds : fate'[d] = IF d \in ToSet(k) THEN "destroyed" ELSE fate[d]
  BY <1>27 DEF PopUsesFreed
<2>4. \A d \in Cmds : d \in ToSet(k) <=> \E i \in 1..Len(k) : k[i] = d
  BY <2>1, InToSet
<2>5. /\ NoRepeat(k)
      /\ \A i \in 1..Len(k) : k[i] \in Cmds /\ fate[k[i]] = "popping"
  BY <1>b, <2>1 DEF Containers, PollerOwns
<2>6. \A d \in Cmds : /\ fate[d] # "popping" => fate'[d] = fate[d]
                      /\ fate'[d] \in {fate[d], "destroyed"}
  BY <2>3, <2>4, <2>5
<2>7. QueueOwns'
  <3>1. Stays({"queued"})
    BY <2>1, <2>6 DEF Stays
  <3> QED
    BY <1>b, <2>1, <3>1, QueueFrame DEF Containers
<2>8. PollerOwns'
  <3> SUFFICES ASSUME NEW r \in Pollers
               PROVE /\ NoRepeat(res[r]) /\ NoRepeat(kept'[r]) /\ Apart(res[r], kept'[r])
                     /\ \A i \in 1..Len(res[r]) : /\ fate'[res[r][i]] = "popping"
                                                  /\ cmd[res[r][i]].queue_id = PollerQueue[r]
                                                  /\ ~pending[res[r][i]]
                     /\ \A i \in 1..Len(kept'[r]) : /\ fate'[kept'[r][i]] = "popping"
                                                    /\ cmd[kept'[r][i]].queue_id = PollerQueue[r]
    BY <2>1 DEF PollerOwns
  <3>1. /\ NoRepeat(res[r]) /\ NoRepeat(kept[r]) /\ Apart(res[r], kept[r])
        /\ \A i \in 1..Len(res[r]) : /\ res[r][i] \in Cmds /\ fate[res[r][i]] = "popping"
                                     /\ cmd[res[r][i]].queue_id = PollerQueue[r]
        /\ \A i \in 1..Len(kept[r]) : /\ kept[r][i] \in Cmds /\ fate[kept[r][i]] = "popping"
                                      /\ cmd[kept[r][i]].queue_id = PollerQueue[r]
    BY <1>b DEF Containers, PollerOwns, PollTypes
  <3>2. \A i \in 1..Len(res[r]) : ~pending[res[r][i]]
    BY <1>b, Zenon DEF Containers, PollerOwns
  <3>3. \A i \in 1..Len(res[r]) : res[r][i] \notin ToSet(k)
    <4>1. CASE r = p
      BY <2>4, <3>1, <4>1 DEF Apart
    <4>2. CASE r # p
      <5>1. Apart(res[r], k)
        BY <1>b, <4>2 DEF Containers, PollersApart
      <5> QED
        BY <2>4, <3>1, <5>1 DEF Apart
    <4> QED
      BY <4>1, <4>2
  <3>4. r # p => \A i \in 1..Len(kept[r]) : kept[r][i] \notin ToSet(k)
    <4>1. r # p => Apart(k, kept[r])
      BY <1>b DEF Containers, PollersApart
    <4> QED
      BY <2>4, <3>1, <4>1 DEF Apart
  <3>a. \A i \in 1..Len(res[r]) : fate'[res[r][i]] = "popping"
    BY <2>3, <3>1, <3>3
  <3>5. CASE r = p
    <4>1. kept'[r] = <<>> /\ 1..Len(kept'[r]) = {}
      BY <2>2, <3>5
    <4>2. NoRepeat(kept'[r]) /\ Apart(res[r], kept'[r])
      BY <4>1 DEF NoRepeat, Apart
    <4> QED
      BY <3>1, <3>2, <3>a, <4>1, <4>2
  <3>6. CASE r # p
    <4>1. kept'[r] = kept[r]
      BY <2>2, <3>6
    <4>2. \A i \in 1..Len(kept[r]) : fate'[kept[r][i]] = "popping"
      BY <2>3, <3>1, <3>4, <3>6
    <4> QED
      BY <3>1, <3>2, <3>a, <4>1, <4>2
  <3> QED
    BY <3>5, <3>6
<2>9. PollersApart'
  <3>1. PollersApart
    BY <1>b DEF Containers
  <3>2. ASSUME NEW r1 \in Pollers, NEW r2 \in Pollers, r1 # r2
        PROVE  Apart(res'[r1], res'[r2]) /\ Apart(res'[r1], kept'[r2])
               /\ Apart(kept'[r1], kept'[r2])
    <4>1. /\ Apart(res[r1], res[r2]) /\ Apart(res[r1], kept[r2]) /\ Apart(kept[r1], kept[r2])
      BY <3>1, <3>2 DEF PollersApart
    <4>2. /\ res'[r1] \in {res[r1], <<>>} /\ kept'[r1] \in {kept[r1], <<>>}
          /\ res'[r2] \in {res[r2], <<>>} /\ kept'[r2] \in {kept[r2], <<>>}
      BY <2>1, <2>2
    <4> QED
      BY <4>1, <4>2, ApartEmptied
  <3> QED
    BY <3>2 DEF PollersApart
<2>10. LogOwns'
  <3>1. Stays({"delivered"})
    BY <2>1, <2>6 DEF Stays
  <3> QED
    BY <1>b, <2>1, <3>1, LogFrame DEF Containers
<2>11. WorkerOwns' /\ Coded' /\ AnsweredDone'
  BY <1>b, <2>1, <2>6 DEF WorkerOwns, Coded, AnsweredDone, Busy, Cmds, WorkerTypes, NoCmd, WorkerInv
<2>12. GameOwns'
  <3>1. NoRepeat(game_work)
    BY <1>b DEF GameOwns
  <3>2. \A i \in 1..Len(game_work) : pending[game_work[i]]
    BY <1>b, Zenon DEF GameOwns
  <3>3. \A i \in 1..Len(game_work) : /\ game_work[i] \in Cmds
                                     /\ fate[game_work[i]] \notin {"unused", "work"}
                                     /\ wpc = "run" => game_work[i] # wcmd
    BY <1>b DEF GameOwns, GameTypes
  <3>4. \A i \in 1..Len(game_work) : fate'[game_work[i]] \notin {"unused", "work"}
    BY <2>6, <3>3
  <3> QED
    BY <2>1, <3>1, <3>2, <3>3, <3>4 DEF GameOwns
<2>13. PendingInv'
  BY <1>b, <2>1, <2>6 DEF PendingInv, QueueTypes
<2> QED
  BY <1>c, <2>7, <2>8, <2>9, <2>10, <2>11, <2>12, <2>13 DEF Containers
<1>28. ASSUME NEW p \in Pollers, FlushReturns(p) PROVE IInv'
<2> DEFINE q == PollerQueue[p]
           b == res[p]
           a == log[q]
<2>1. /\ q \in Queues /\ a \in Seq(Cmds) /\ b \in Seq(Cmds)
      /\ UNCHANGED <<command_counter, cmd, pending, result_code, work_queue, wpc, wcmd,
                     game_work, results, kept>>
  BY <1>b, <1>28 DEF FlushReturns, PollTypes, HistTypes
<2>2. /\ log'[q] = a \o Reverse(b) /\ \A r \in Queues : r # q => log'[r] = log[r]
      /\ res'[p] = <<>> /\ \A r \in Pollers : r # p => res'[r] = res[r]
  <3>1. log' = [log EXCEPT ![q] = a \o Reverse(b)] /\ res' = [res EXCEPT ![p] = <<>>]
    BY <1>28 DEF FlushReturns, Answer
  <3> QED
    BY <1>b, <2>1, <3>1 DEF HistTypes, PollTypes
<2>3. \A d \in Cmds : fate'[d] = IF d \in ToSet(b) THEN "delivered" ELSE fate[d]
  BY <1>28 DEF FlushReturns
<2>4. \A d \in Cmds : d \in ToSet(b) <=> \E i \in 1..Len(b) : b[i] = d
  BY <2>1, InToSet
<2>5. /\ NoRepeat(b)
      /\ \A i \in 1..Len(b) : b[i] \in Cmds /\ fate[b[i]] = "popping" /\ cmd[b[i]].queue_id = q
  BY <1>b, <2>1 DEF Containers, PollerOwns
<2>6. \A i \in 1..Len(b) : ~pending[b[i]]
  BY <1>b, Zenon DEF Containers, PollerOwns
<2>7. \A d \in Cmds : /\ fate[d] # "popping" => fate'[d] = fate[d]
                      /\ fate'[d] # fate[d] => fate'[d] = "delivered" /\ d \in ToSet(b)
  BY <2>3, <2>4, <2>5
<2>8. QueueOwns'
  <3>1. Stays({"queued"})
    BY <2>1, <2>7 DEF Stays
  <3> QED
    BY <1>b, <2>1, <3>1, QueueFrame DEF Containers
<2>9. PollerOwns'
  <3> SUFFICES ASSUME NEW r \in Pollers
               PROVE /\ NoRepeat(res'[r]) /\ NoRepeat(kept[r]) /\ Apart(res'[r], kept[r])
                     /\ \A i \in 1..Len(res'[r]) : /\ fate'[res'[r][i]] = "popping"
                                                   /\ cmd[res'[r][i]].queue_id = PollerQueue[r]
                                                   /\ ~pending[res'[r][i]]
                     /\ \A i \in 1..Len(kept[r]) : /\ fate'[kept[r][i]] = "popping"
                                                   /\ cmd[kept[r][i]].queue_id = PollerQueue[r]
    BY <2>1 DEF PollerOwns
  <3>1. /\ NoRepeat(res[r]) /\ NoRepeat(kept[r]) /\ Apart(res[r], kept[r])
        /\ \A i \in 1..Len(res[r]) : /\ res[r][i] \in Cmds /\ fate[res[r][i]] = "popping"
                                     /\ cmd[res[r][i]].queue_id = PollerQueue[r]
        /\ \A i \in 1..Len(kept[r]) : /\ kept[r][i] \in Cmds /\ fate[kept[r][i]] = "popping"
                                      /\ cmd[kept[r][i]].queue_id = PollerQueue[r]
    BY <1>b DEF Containers, PollerOwns, PollTypes
  <3>2. \A i \in 1..Len(res[r]) : ~pending[res[r][i]]
    BY <1>b, Zenon DEF Containers, PollerOwns
  <3>3. \A i \in 1..Len(kept[r]) : kept[r][i] \notin ToSet(b)
    <4>1. CASE r = p
      BY <2>4, <3>1, <4>1 DEF Apart
    <4>2. CASE r # p
      <5>1. Apart(b, kept[r])
        BY <1>b, <4>2 DEF Containers, PollersApart
      <5> QED
        BY <2>4, <3>1, <5>1 DEF Apart
    <4> QED
      BY <4>1, <4>2
  <3>4. r # p => \A i \in 1..Len(res[r]) : res[r][i] \notin ToSet(b)
    <4>1. r # p => Apart(b, res[r])
      BY <1>b DEF Containers, PollersApart
    <4> QED
      BY <2>4, <3>1, <4>1 DEF Apart
  <3>5. CASE r = p
    BY <2>2, <2>3, <3>1, <3>3, <3>5 DEF NoRepeat, Apart
  <3>6. CASE r # p
    BY <2>2, <2>3, <3>1, <3>2, <3>3, <3>4, <3>6
  <3> QED
    BY <3>5, <3>6
<2>10. PollersApart'
  <3>1. PollersApart
    BY <1>b DEF Containers
  <3>2. ASSUME NEW r1 \in Pollers, NEW r2 \in Pollers, r1 # r2
        PROVE  Apart(res'[r1], res'[r2]) /\ Apart(res'[r1], kept'[r2])
               /\ Apart(kept'[r1], kept'[r2])
    <4>1. /\ Apart(res[r1], res[r2]) /\ Apart(res[r1], kept[r2]) /\ Apart(kept[r1], kept[r2])
      BY <3>1, <3>2 DEF PollersApart
    <4>2. /\ res'[r1] \in {res[r1], <<>>} /\ kept'[r1] \in {kept[r1], <<>>}
          /\ res'[r2] \in {res[r2], <<>>} /\ kept'[r2] \in {kept[r2], <<>>}
      BY <2>1, <2>2
    <4> QED
      BY <4>1, <4>2, ApartEmptied
  <3> QED
    BY <3>2 DEF PollersApart
<2>11. LogOwns'
  <3>1. /\ NoRepeat(a)
        /\ \A i \in 1..Len(a) : a[i] \in Cmds /\ fate[a[i]] = "delivered" /\ cmd[a[i]].queue_id = q
    BY <1>b, <2>1 DEF Containers, LogOwns
  <3>2. Apart(a, b)
    BY <2>5, <3>1 DEF Apart
  <3>3. /\ NoRepeat(a \o Reverse(b))
        /\ \A i \in 1..Len(a \o Reverse(b)) :
              \/ \E j \in 1..Len(a) : (a \o Reverse(b))[i] = a[j]
              \/ \E j \in 1..Len(b) : (a \o Reverse(b))[i] = b[j]
    <4> HIDE DEF a, b
    <4> QED
      BY <2>1, <2>5, <3>1, <3>2, AnswerElements
  <3>4. /\ \A i \in 1..Len(a) : fate'[a[i]] = "delivered"
        /\ \A i \in 1..Len(b) : fate'[b[i]] = "delivered"
    BY <2>3, <2>4, <2>5, <2>7, <3>1
  <3>5. /\ NoRepeat(log'[q])
        /\ \A i \in 1..Len(log'[q]) : fate'[log'[q][i]] = "delivered" /\ cmd[log'[q][i]].queue_id = q
    <4>1. /\ \A i \in 1..Len(a) : fate'[a[i]] = "delivered" /\ cmd[a[i]].queue_id = q
          /\ \A i \in 1..Len(b) : fate'[b[i]] = "delivered" /\ cmd[b[i]].queue_id = q
      BY <2>5, <3>1, <3>4
    <4> DEFINE t == a \o Reverse(b)
    <4>2. log'[q] = t
      BY <2>2
    <4>3. NoRepeat(t) /\ \A i \in 1..Len(t) : \/ \E j \in 1..Len(a) : t[i] = a[j]
                                              \/ \E j \in 1..Len(b) : t[i] = b[j]
      BY <3>3
    <4> HIDE DEF a, b, t, q
    <4> QED
      BY <4>1, <4>2, <4>3
  <3>6. \A r \in Queues : r # q =>
          /\ NoRepeat(log[r])
          /\ \A i \in 1..Len(log[r]) : fate'[log[r][i]] = "delivered"
                                       /\ cmd[log[r][i]].queue_id = r
    BY <1>b, <2>7 DEF Containers, LogOwns, HistTypes
  <3>7. \A r \in Queues :
          /\ NoRepeat(log'[r])
          /\ \A i \in 1..Len(log'[r]) : fate'[log'[r][i]] = "delivered"
                                        /\ cmd[log'[r][i]].queue_id = r
    <4> SUFFICES ASSUME NEW r \in Queues
                 PROVE  /\ NoRepeat(log'[r])
                        /\ \A i \in 1..Len(log'[r]) : fate'[log'[r][i]] = "delivered"
                                                      /\ cmd[log'[r][i]].queue_id = r
      OBVIOUS
    <4>1. CASE r = q
      BY <3>5, <4>1
    <4>2. CASE r # q
      <5>1. log'[r] = log[r]
        BY <2>2, <4>2
      <5> QED
        BY <3>6, <4>2, <5>1
    <4> QED
      BY <4>1, <4>2
  <3> QED
    BY <2>1, <3>7 DEF LogOwns
<2>12. WorkerOwns' /\ Coded'
  BY <1>b, <2>1, <2>5, <2>7 DEF WorkerOwns, Coded, Busy, Cmds, WorkerTypes, NoCmd, WorkerInv
<2>13. AnsweredDone'
  <3>1. \A d \in ToSet(b) : d \in Cmds => ~pending[d]
    BY <2>4, <2>6
  <3> QED
    BY <1>b, <2>1, <2>7, <3>1 DEF AnsweredDone
<2>14. GameOwns'
  <3>1. NoRepeat(game_work)
    BY <1>b DEF GameOwns
  <3>2. \A i \in 1..Len(game_work) : pending[game_work[i]]
    BY <1>b, Zenon DEF GameOwns
  <3>3. \A i \in 1..Len(game_work) : /\ game_work[i] \in Cmds
                                     /\ fate[game_work[i]] \notin {"unused", "work"}
                                     /\ wpc = "run" => game_work[i] # wcmd
    BY <1>b DEF GameOwns, GameTypes
  <3>4. \A i \in 1..Len(game_work) : fate'[game_work[i]] \notin {"unused", "work"}
    BY <2>7, <3>3
  <3> QED
    BY <2>1, <3>1, <3>2, <3>3, <3>4 DEF GameOwns
<2>15. PendingInv'
  <3>1. pending_commands' = {d \in pending_commands : d \notin ToSet(b)} /\ pending_commands \subseteq Cmds
    BY <1>b, <1>28 DEF FlushReturns, ErasesPopped, QueueTypes
  <3>2. \A d \in ToSet(b) : d \in Cmds => ~pending[d]
    BY <2>4, <2>6
  <3>3. \A d \in pending_commands' : fate'[d] \notin {"unused", "work", "delivered"}
    BY <1>b, <2>7, <3>1 DEF PendingInv
  <3>4. \A d \in Cmds : fate'[d] \in {"queued", "popping"} /\ pending[d] => d \in pending_commands'
    BY <1>b, <2>7, <3>1, <3>2 DEF PendingInv
  <3>5. wpc = "emplace" /\ pending[wcmd] => wcmd \in pending_commands'
    BY <1>b, <3>1, <3>2 DEF PendingInv, Busy
  <3> QED
    BY <2>1, <3>3, <3>4, <3>5 DEF PendingInv
<2> QED
  BY <1>c, <2>8, <2>9, <2>10, <2>11, <2>12, <2>13, <2>14, <2>15 DEF Containers
<1>29. CASE UNCHANGED vars
<2>1. Containers'
  BY <1>b, <1>29, Frame DEF vars, Stays
<2>2. WorkerOwns' /\ Coded' /\ GameOwns' /\ AnsweredDone' /\ PendingInv'
  BY <1>b, <1>29 DEF vars, WorkerOwns, Coded, GameOwns, AnsweredDone, PendingInv
<2> QED
  BY <1>c, <2>1, <2>2
<1> QED
  BY <1>1, <1>2, <1>3, <1>4, <1>5, <1>6, <1>7, <1>8, <1>9, <1>10, <1>11, <1>12, <1>13, <1>14, <1>15, <1>16, <1>17, <1>18, <1>19, <1>20, <1>21, <1>22, <1>23, <1>24, <1>25, <1>26, <1>27, <1>28, <1>29 DEF Next, Submitter, Caller, Owner, Worker, GameLoop, Poller

(* Initially nobody holds a finished command. *)
LEMMA OwnerInit == Init => IInv
<1> SUFFICES ASSUME Init PROVE IInv
  OBVIOUS
<1>1. TypeInv
  BY TypeInit
<1>2. Containers
  BY ConstantsAssumption DEF Init, Containers, QueueOwns, PollerOwns, PollersApart, LogOwns,
                             NoRepeat, Apart
<1>3. WorkerOwns
  BY DEF Init, WorkerOwns, Busy, NoCmd
<1>4. Coded
  BY DEF Init, Coded
<1>5. GameOwns
  BY DEF Init, GameOwns, NoRepeat
<1>6. AnsweredDone /\ PendingInv
  BY DEF Init, AnsweredDone, PendingInv
<1> QED
  BY <1>1, <1>2, <1>3, <1>4, <1>5, <1>6 DEF IInv, Containers

(* Every reachable state satisfies the inductive invariant. *)
THEOREM Ownership == Spec => []IInv
BY OwnerInit, OwnerNext, PTL DEF Spec

(* The members of the containers in terms of the fate of a command. *)
LEMMA Places ==
  ASSUME IInv, NEW c \in Cmds
  PROVE  /\ Delivered(c) => fate[c] = "delivered"
         /\ \A q \in Queues : c \in ToSet(results[q]) => fate[c] = "queued" /\ cmd[c].queue_id = q
         /\ \A p \in Pollers : c \in ToSet(res[p]) \/ c \in ToSet(kept[p]) => fate[c] = "popping"
         /\ c \in work_queue => fate[c] = "work"
         /\ c = wcmd => fate[c] = "running"
         /\ c \in ToSet(game_work) => pending[c]
<1> USE DEF IInv, TypeInv, TypeOK
<1>1. Delivered(c) => fate[c] = "delivered"
  <2> SUFFICES ASSUME NEW q \in Queues, c \in ToSet(log[q]) PROVE fate[c] = "delivered"
    BY DEF Delivered
  <2>1. log[q] \in Seq(Cmds)
    BY DEF HistTypes
  <2>2. PICK i \in 1..Len(log[q]) : log[q][i] = c
    BY <2>1, InToSet
  <2> QED
    BY <2>2 DEF LogOwns
<1>2. ASSUME NEW q \in Queues, c \in ToSet(results[q])
      PROVE  fate[c] = "queued" /\ cmd[c].queue_id = q
  <2>1. results[q] \in Seq(Cmds)
    BY DEF QueueTypes
  <2>2. PICK i \in 1..Len(results[q]) : results[q][i] = c
    BY <1>2, <2>1, InToSet
  <2> QED
    BY <2>2 DEF QueueOwns
<1>3. ASSUME NEW p \in Pollers, c \in ToSet(res[p]) \/ c \in ToSet(kept[p])
      PROVE  fate[c] = "popping"
  <2>1. res[p] \in Seq(Cmds) /\ kept[p] \in Seq(Cmds)
    BY DEF PollTypes
  <2>2. \/ \E i \in 1..Len(res[p]) : res[p][i] = c
        \/ \E i \in 1..Len(kept[p]) : kept[p][i] = c
    BY <1>3, <2>1, InToSet
  <2> QED
    BY <2>2 DEF PollerOwns
<1>4. (c \in work_queue => fate[c] = "work") /\ (c = wcmd => fate[c] = "running")
  BY DEF WorkerOwns, Cmds, NoCmd
<1>5. c \in ToSet(game_work) => pending[c]
  <2> SUFFICES ASSUME c \in ToSet(game_work) PROVE pending[c]
    OBVIOUS
  <2>1. game_work \in Seq(Cmds)
    BY DEF GameTypes
  <2>2. PICK i \in 1..Len(game_work) : game_work[i] = c
    BY <2>1, InToSet
  <2>3. pending[game_work[i]]
    BY Zenon DEF GameOwns
  <2> QED
    BY <2>2, <2>3
<1> QED
  BY <1>1, <1>2, <1>3, <1>4, <1>5

(* No result is answered twice, and none on a queue other than its own:      *)
(* flush_results, RingBuffer eviction, re-insertion of pending entries and   *)
(* DESTROY_QUEUE in any interleaving, for any number of threads and queues.  *)
THEOREM AnsweredOnce == Spec => []DeliveredOnce
<1>1. IInv => DeliveredOnce
  <2> SUFFICES ASSUME IInv PROVE DeliveredOnce
    OBVIOUS
  <2>1. \A q \in Queues : /\ NoRepeat(log[q])
                          /\ \A i \in 1..Len(log[q]) : cmd[log[q][i]].queue_id = q
    BY DEF IInv, LogOwns
  <2>2. ASSUME NEW q1 \in Queues, NEW q2 \in Queues,
               NEW i \in 1..Len(log[q1]), NEW j \in 1..Len(log[q2]), log[q1][i] = log[q2][j]
        PROVE  q1 = q2 /\ i = j
    <3>1. q1 = q2
      BY <2>1, <2>2
    <3> QED
      BY <2>1, <2>2, <3>1 DEF NoRepeat
  <2> QED
    BY <2>1, <2>2 DEF DeliveredOnce
<1> QED
  BY <1>1, Ownership, PTL

(* A command is in one place at a time. *)
THEOREM SingleOwner == Spec => []OneOwner
<1>1. IInv => OneOwner
  <2> SUFFICES ASSUME IInv, NEW c \in Cmds
               PROVE
      /\ \A q \in Queues : c \in ToSet(results[q]) =>
           /\ c # wcmd /\ c \notin work_queue /\ ~Delivered(c)
           /\ \A r \in Queues : c \in ToSet(results[r]) => r = q
           /\ \A p \in Pollers : c \notin ToSet(res[p]) /\ c \notin ToSet(kept[p])
      /\ \A p \in Pollers : c \in ToSet(res[p]) \/ c \in ToSet(kept[p]) =>
           /\ c # wcmd /\ c \notin work_queue /\ ~Delivered(c)
           /\ ~(c \in ToSet(res[p]) /\ c \in ToSet(kept[p]))
           /\ \A r \in Pollers : c \in ToSet(res[r]) \/ c \in ToSet(kept[r]) => r = p
      /\ c = wcmd \/ c \in work_queue => ~Delivered(c)
    BY DEF OneOwner
  <2>1. \A q \in Queues : c \in ToSet(results[q]) =>
          /\ c # wcmd /\ c \notin work_queue /\ ~Delivered(c)
          /\ \A r \in Queues : c \in ToSet(results[r]) => r = q
          /\ \A p \in Pollers : c \notin ToSet(res[p]) /\ c \notin ToSet(kept[p])
    BY Places
  <2>2. \A p \in Pollers : c \in ToSet(res[p]) \/ c \in ToSet(kept[p]) =>
          c # wcmd /\ c \notin work_queue /\ ~Delivered(c)
    BY Places
  <2>3. \A p \in Pollers :
          /\ c \in ToSet(res[p]) <=> \E i \in 1..Len(res[p]) : res[p][i] = c
          /\ c \in ToSet(kept[p]) <=> \E i \in 1..Len(kept[p]) : kept[p][i] = c
    <3>1. \A p \in Pollers : res[p] \in Seq(Cmds) /\ kept[p] \in Seq(Cmds)
      BY DEF IInv, TypeInv, TypeOK, PollTypes
    <3> QED
      BY <3>1, InToSet
  <2>4. \A p \in Pollers : ~(c \in ToSet(res[p]) /\ c \in ToSet(kept[p]))
    <3>1. \A p \in Pollers : Apart(res[p], kept[p])
      BY DEF IInv, PollerOwns
    <3> QED
      BY <2>3, <3>1 DEF Apart
  <2>5. ASSUME NEW p \in Pollers, NEW r \in Pollers, r # p,
               c \in ToSet(res[p]) \/ c \in ToSet(kept[p]),
               c \in ToSet(res[r]) \/ c \in ToSet(kept[r])
        PROVE  FALSE
    <3>1. /\ Apart(res[p], res[r]) /\ Apart(res[p], kept[r]) /\ Apart(kept[p], kept[r])
          /\ Apart(res[r], kept[p])
      BY <2>5 DEF IInv, PollersApart
    <3> QED
      BY <2>3, <2>5, <3>1 DEF Apart
  <2>6. c = wcmd \/ c \in work_queue => ~Delivered(c)
    BY Places
  <2> QED
    BY <2>1, <2>2, <2>4, <2>5, <2>6
<1> QED
  BY <1>1, Ownership, PTL

(* A poll answers only finished commands. *)
THEOREM AnsweredComplete == Spec => []DeliveredComplete
<1>1. IInv => DeliveredComplete
  <2> SUFFICES ASSUME IInv, NEW c \in Cmds, Delivered(c)
               PROVE  result_code[c] # "NONE" /\ ~pending[c] /\ c \notin ToSet(game_work)
    BY DEF DeliveredComplete
  <2>1. fate[c] = "delivered"
    BY Places
  <2>2. result_code[c] # "NONE"
    BY <2>1 DEF IInv, Coded
  <2>3. ~pending[c]
    BY <2>1 DEF IInv, AnsweredDone
  <2>4. c \notin ToSet(game_work)
    BY <2>3, Places
  <2> QED
    BY <2>2, <2>3, <2>4
<1> QED
  BY <1>1, Ownership, PTL

(* pending_commands_ names no answered command. *)
THEOREM AnsweredNotPending == Spec => []PendingCleared
<1>1. IInv => PendingCleared
  <2> SUFFICES ASSUME IInv, NEW c \in pending_commands PROVE ~Delivered(c)
    BY DEF PendingCleared
  <2>1. c \in Cmds
    BY DEF IInv, TypeInv, TypeOK, QueueTypes
  <2>2. fate[c] # "delivered"
    BY DEF IInv, PendingInv
  <2> QED
    BY <2>1, <2>2, Places
<1> QED
  BY <1>1, Ownership, PTL

(* Every result that waits for the game loop is reported as pending. *)
THEOREM WaitingIsPending == Spec => []PendingListed
<1>1. IInv => PendingListed
  <2> SUFFICES ASSUME IInv, NEW c \in Cmds, pending[c],
                      \/ \E q \in Queues : c \in ToSet(results[q])
                      \/ \E p \in Pollers : c \in ToSet(kept[p])
               PROVE  c \in pending_commands
    BY DEF PendingListed
  <2>1. fate[c] \in {"queued", "popping"}
    BY Places
  <2> QED
    BY <2>1 DEF IInv, PendingInv
<1> QED
  BY <1>1, Ownership, PTL

(* The pending list is right in both directions. *)
THEOREM PendingListRight == Spec => []PendingAccurate
  BY AnsweredNotPending, WaitingIsPending, PTL DEF PendingAccurate


-----------------------------------------------------------------------------
(* The converse: a command that fate places somewhere is there.  Together    *)
(* with the invariant above it says that the last pointer to a command goes  *)
(* only when the command is answered, lost or done.                          *)

InResults(c) == \E q \in Queues : c \in ToSet(results[q])
InPoll(c) == \E p \in Pollers : c \in ToSet(res[p]) \/ c \in ToSet(kept[p])

Held ==
  \A c \in Cmds :
    /\ fate[c] = "running" => c = wcmd
    /\ fate[c] = "queued" => InResults(c)
    /\ fate[c] = "popping" => InPoll(c)
    /\ c \in ToSet(game_work) => fate[c] # "done"

(* The elements of the sequences the queues are made of. *)
LEMMA SetOfSequence ==
  ASSUME NEW S, NEW s \in Seq(S)
  PROVE  /\ \A e \in S : ToSet(Append(s, e)) = ToSet(s) \cup {e}
         /\ s # <<>> => /\ ToSet(s) = ToSet(Tail(s)) \cup {Head(s)}
                        /\ ToSet(s) = ToSet(Front(s)) \cup {s[Len(s)]}
         /\ ToSet(<<>>) = {}
<1>1. ASSUME NEW e \in S PROVE ToSet(Append(s, e)) = ToSet(s) \cup {e}
  <2>1. /\ Len(Append(s, e)) = Len(s) + 1 /\ Len(s) \in Nat
        /\ \A k \in 1..Len(s) : Append(s, e)[k] = s[k]
        /\ Append(s, e)[Len(s) + 1] = e
        /\ DOMAIN s = 1..Len(s) /\ DOMAIN Append(s, e) = 1..Len(s) + 1
    OBVIOUS
  <2>2. ToSet(Append(s, e)) \subseteq ToSet(s) \cup {e}
    BY <2>1 DEF ToSet
  <2>3. ToSet(s) \cup {e} \subseteq ToSet(Append(s, e))
    BY <2>1 DEF ToSet
  <2> QED
    BY <2>2, <2>3
<1>2. ASSUME s # <<>> PROVE ToSet(s) = ToSet(Tail(s)) \cup {Head(s)}
  <2>1. /\ Len(s) \in Nat \ {0} /\ Head(s) = s[1] /\ Tail(s) \in Seq(S)
        /\ Len(Tail(s)) = Len(s) - 1
        /\ \A k \in 1..Len(s) - 1 : Tail(s)[k] = s[k + 1]
    BY <1>2, HeadTailProperties
  <2>2. DOMAIN s = 1..Len(s) /\ DOMAIN Tail(s) = 1..Len(s) - 1
    BY <2>1
  <2>3. ASSUME NEW k \in 1..Len(s) PROVE s[k] \in ToSet(Tail(s)) \cup {Head(s)}
    <3>1. CASE k = 1
      BY <2>1, <3>1
    <3>2. CASE k # 1
      <4>1. k - 1 \in 1..Len(s) - 1 /\ s[k] = Tail(s)[k - 1]
        BY <2>1, <3>2
      <4> QED
        BY <2>2, <4>1 DEF ToSet
    <3> QED
      BY <3>1, <3>2
  <2>4. \A k \in 1..Len(s) - 1 : Tail(s)[k] \in ToSet(s)
    BY <2>1, <2>2 DEF ToSet
  <2>5. Head(s) \in ToSet(s)
    BY <2>1, <2>2 DEF ToSet
  <2> QED
    BY <2>2, <2>3, <2>4, <2>5 DEF ToSet
<1>3. ASSUME s # <<>> PROVE ToSet(s) = ToSet(Front(s)) \cup {s[Len(s)]}
  <2>1. /\ Front(s) \in Seq(S) /\ Len(Front(s)) = Len(s) - 1 /\ Len(s) \in Nat \ {0}
        /\ \A k \in 1..Len(s) - 1 : Front(s)[k] = s[k]
    BY <1>3, FrontType
  <2>2. DOMAIN s = 1..Len(s) /\ DOMAIN Front(s) = 1..Len(s) - 1
    BY <2>1
  <2> QED
    BY <2>1, <2>2 DEF ToSet
<1>4. ToSet(<<>>) = {}
  BY DEF ToSet
<1> QED
  BY <1>1, <1>2, <1>3, <1>4

(* A step that moves no command. *)
LEMMA HeldKept ==
  ASSUME Held, UNCHANGED <<fate, wcmd, results, res, kept>>,
         ToSet(game_work') \subseteq ToSet(game_work)
  PROVE  Held'
BY DEF Held, InResults, InPoll

(* A step of the worker moves one command and leaves the polls alone. *)
LEMMA HeldMoved ==
  ASSUME Held, IInv, NEW c \in Cmds, NEW f \in Fates, fate' = [fate EXCEPT ![c] = f],
         f = "running" => c = wcmd', f \notin {"queued", "popping"},
         \A d \in Cmds : d # c /\ fate[d] = "running" => d = wcmd',
         f = "done" => c \notin ToSet(game_work),
         UNCHANGED <<results, res, kept, game_work>>
  PROVE  Held'
<1>1. /\ fate'[c] = f
      /\ \A d \in Cmds : d # c => fate'[d] = fate[d]
  BY DEF IInv, TypeInv, TypeOK, HistTypes
<1>2. \A d \in Cmds : InResults(d)' = InResults(d) /\ InPoll(d)' = InPoll(d)
  BY DEF InResults, InPoll
<1> QED
  BY <1>1, <1>2 DEF Held

(* Every step keeps the accounting of the commands that are held. *)
LEMMA HeldNext == IInv /\ Held /\ [Next]_vars => Held'
<1> SUFFICES ASSUME IInv, Held, [Next]_vars PROVE Held'
  OBVIOUS
<1> USE DEF cmdVars, workerVars, queueVars, gameVars, pollVars, callVars, histVars
<1>t. /\ CmdTypes /\ WorkerTypes /\ QueueTypes /\ GameTypes /\ PollTypes /\ HistTypes
      /\ WorkerOwns /\ WorkerInv
  BY DEF IInv, TypeInv, TypeOK
<1>a. /\ \A q \in Queues : results[q] \in Seq(Cmds)
      /\ \A p \in Pollers : res[p] \in Seq(Cmds) /\ kept[p] \in Seq(Cmds)
      /\ game_work \in Seq(Cmds)
  BY <1>t DEF QueueTypes, PollTypes, GameTypes
<1>b. \A c \in Cmds : fate[c] = "running" => wpc \in Busy
  BY <1>t DEF Held, WorkerOwns, Cmds, NoCmd
<1>w. \A c \in Cmds : c \in ToSet(game_work) => fate[c] \notin {"unused", "work"}
  <2> SUFFICES ASSUME NEW c \in Cmds, c \in ToSet(game_work) PROVE fate[c] \notin {"unused", "work"}
    OBVIOUS
  <2>1. PICK j \in 1..Len(game_work) : game_work[j] = c
    BY <1>a, InToSet
  <2> QED
    BY <2>1 DEF IInv, GameOwns
<1>1. ASSUME NEW r, Make(command_counter + 1, r) PROVE Held'
  <2> DEFINE n == command_counter + 1
  <2>1. n \in Cmds /\ fate' = [fate EXCEPT ![n] = "work"]
    BY <1>1, <1>t, ConstantsAssumption DEF Make, CmdTypes, Cmds
  <2>2. UNCHANGED <<wcmd, results, res, kept, game_work>>
    BY <1>1 DEF Make
  <2> HIDE DEF n
  <2>3. "work" \in Fates /\ \A d \in Cmds : fate[d] = "running" => d = wcmd'
    BY <2>2 DEF Held, Fates
  <2> QED
    BY <2>1, <2>2, <2>3, HeldMoved
<1>2. ASSUME \/ SubmitUnknown \/ ShutdownJoins \/ HandlerReturns \/ HandlerThrows
             \/ SaveCommandResult \/ StoreResultCode \/ UNCHANGED vars
             \/ \E k \in Callers : BuiltinReturns(k)
             \/ \E throws \in BOOLEAN : GameExecutes(throws)
             \/ \E p \in Pollers : FlushFinds(p) \/ PopTimesOut(p) \/ PopBegins(p)
      PROVE  Held'
  <2>1. UNCHANGED <<fate, wcmd, results, res, kept, game_work>>
    BY <1>2 DEF SubmitUnknown, ShutdownJoins, HandlerReturns, HandlerThrows, SaveCommandResult,
         StoreResultCode, BuiltinReturns, GameExecutes, FlushFinds, PopTimesOut, PopBegins, vars
  <2> QED
    BY <2>1, HeldKept
<1>3. ASSUME NEW c \in Cmds, WorkerCreatesQueue(c) \/ WorkerShutsDown(c) PROVE Held'
  <2>1. /\ fate[c] = "work" /\ fate' = [fate EXCEPT ![c] = "done"]
        /\ UNCHANGED <<wcmd, results, res, kept, game_work>>
    BY <1>t, <1>3 DEF WorkerCreatesQueue, WorkerShutsDown, WorkerTakes, IsTop, WorkerOwns
  <2>2. "done" \in Fates /\ \A d \in Cmds : fate[d] = "running" => d = wcmd'
    BY <2>1 DEF Held, Fates
  <2>3. c \notin ToSet(game_work)
    BY <1>w, <2>1
  <2> QED
    BY <2>1, <2>2, <2>3, HeldMoved
<1>4. ASSUME NEW c \in Cmds, WorkerRuns(c) PROVE Held'
  <2>1. /\ wpc = "wait" /\ fate' = [fate EXCEPT ![c] = "running"] /\ wcmd' = c
        /\ UNCHANGED <<results, res, kept, game_work>>
    BY <1>4 DEF WorkerRuns, WorkerTakes
  <2>2. \A d \in Cmds : fate[d] # "running"
    BY <1>b, <2>1 DEF Busy
  <2> QED
    BY <2>1, <2>2, HeldMoved DEF Fates
<1>5. ASSUME NEW c \in Cmds, WorkerDestroysQueue(c) PROVE Held'
  <2> DEFINE q == cmd[c].queue_id
  <2>1. /\ fate[c] = "work" /\ c \in work_queue /\ cmd[c].type = CommandType.DESTROY_QUEUE
        /\ fate' = [d \in Cmds |-> IF d = c THEN "done"
                               ELSE IF d \in ToSet(results[q]) THEN "destroyed"
                               ELSE fate[d]]
        /\ results' = [results EXCEPT ![q] = <<>>]
        /\ UNCHANGED <<wcmd, res, kept, game_work>>
    BY <1>t, <1>5 DEF WorkerDestroysQueue, WorkerTakes, IsTop, WorkerOwns
  <2> HIDE DEF q
  <2>2. \A r \in Queues : r # q => results'[r] = results[r]
    BY <1>t, <2>1 DEF QueueTypes
  <2> SUFFICES ASSUME NEW d \in Cmds
               PROVE  /\ fate'[d] = "running" => d = wcmd'
                      /\ fate'[d] = "queued" => InResults(d)'
                      /\ fate'[d] = "popping" => InPoll(d)'
                      /\ d \in ToSet(game_work)' => fate'[d] # "done"
    BY DEF Held
  <2>3. fate'[d] = "running" => d = wcmd'
    BY <2>1 DEF Held
  <2>4. ASSUME fate'[d] = "queued" PROVE InResults(d)'
    <3>1. fate[d] = "queued" /\ d \notin ToSet(results[q])
      BY <2>1, <2>4
    <3>2. PICK r \in Queues : d \in ToSet(results[r])
      BY <3>1 DEF Held, InResults
    <3>3. results'[r] = results[r]
      BY <2>2, <3>1, <3>2
    <3> QED
      BY <3>2, <3>3 DEF InResults
  <2>5. fate'[d] = "popping" => InPoll(d)'
    BY <2>1 DEF Held, InPoll
  <2>6. d \in ToSet(game_work)' => fate'[d] # "done"
    BY <1>w, <2>1 DEF Held
  <2> QED
    BY <2>3, <2>4, <2>5, <2>6
<1>6. ASSUME HandlerDefers PROVE Held'
  <2>1. /\ wpc \in Busy /\ wcmd \in Cmds /\ fate[wcmd] = "running"
        /\ game_work' = Append(game_work, wcmd) /\ UNCHANGED <<fate, wcmd, results, res, kept>>
    BY <1>t, <1>6 DEF HandlerDefers, WorkerOwns, WorkerTypes, Busy, NoCmd
  <2>2. ToSet(game_work') = ToSet(game_work) \cup {wcmd}
    BY <1>a, <2>1, SetOfSequence
  <2> QED
    BY <2>1, <2>2 DEF Held, InResults, InPoll
<1>7. ASSUME CheckPending \/ EmplaceNoQueue PROVE Held'
  <2>1. CASE UNCHANGED <<fate, wcmd>>
    BY <1>7, <2>1, HeldKept DEF CheckPending, EmplaceNoQueue
  <2>2. CASE ~UNCHANGED <<fate, wcmd>>
    <3>1. /\ wpc \in Busy /\ wcmd \in Cmds /\ UNCHANGED <<results, res, kept, game_work>>
          /\ \E f \in {"discarded", "noqueue"} : fate' = [fate EXCEPT ![wcmd] = f]
      BY <1>t, <1>7, <2>2 DEF CheckPending, EmplaceNoQueue, WorkerOwns, WorkerTypes, Busy, NoCmd
    <3>2. \A d \in Cmds : d # wcmd => fate[d] # "running"
      BY DEF Held
    <3> QED
      BY <3>1, <3>2, HeldMoved DEF Fates, Lost
  <2> QED
    BY <2>1, <2>2
<1>8. ASSUME EmplaceResult PROVE Held'
  <2> DEFINE q == cmd[wcmd].queue_id
             s == results[q]
  <2>1. /\ wpc \in Busy /\ wcmd \in Cmds /\ q \in Queues
        /\ results' = [results EXCEPT ![q] = RingEmplace(s, wcmd)]
        /\ fate' = [c \in Cmds |-> IF c = wcmd THEN "queued"
                                   ELSE IF RingEvicts(s) /\ c = Head(s) THEN "evicted"
                                   ELSE fate[c]]
        /\ UNCHANGED <<res, kept, game_work>>
    BY <1>t, <1>8 DEF EmplaceResult, WorkerOwns, WorkerTypes, QueueTypes, Busy, NoCmd
  <2>2. s \in Seq(Cmds)
    BY <1>a, <2>1
  <2>3. results'[q] = RingEmplace(s, wcmd) /\ \A r \in Queues : r # q => results'[r] = results[r]
    BY <1>t, <2>1 DEF QueueTypes
  <2>d. s = results[q]
    OBVIOUS
  <2> HIDE DEF q, s
  <2>4. /\ wcmd \in ToSet(RingEmplace(s, wcmd))
        /\ \A c \in ToSet(s) : c \in ToSet(RingEmplace(s, wcmd)) \/ (RingEvicts(s) /\ c = Head(s))
    <3>1. CASE ~RingEvicts(s)
      BY <2>1, <2>2, <3>1, SetOfSequence DEF RingEmplace
    <3>2. CASE RingEvicts(s)
      <4>1. s # <<>>
        BY <3>2, ConstantsAssumption DEF RingEvicts
      <4>a. Tail(s) \in Seq(Cmds)
        BY <2>2, <4>1
      <4>2. PICK t \in Seq(Cmds) : t = Tail(s)
        BY <4>a, Zenon
      <4>3. ToSet(Append(t, wcmd)) = ToSet(t) \cup {wcmd}
        BY <2>1, SetOfSequence
      <4>4. ToSet(s) = ToSet(Tail(s)) \cup {Head(s)}
        BY <2>2, <4>1, SetOfSequence
      <4> QED
        BY <3>2, <4>2, <4>3, <4>4 DEF RingEmplace
    <3> QED
      BY <3>1, <3>2
  <2> SUFFICES ASSUME NEW d \in Cmds
               PROVE  /\ fate'[d] = "running" => d = wcmd'
                      /\ fate'[d] = "queued" => InResults(d)'
                      /\ fate'[d] = "popping" => InPoll(d)'
                      /\ d \in ToSet(game_work)' => fate'[d] # "done"
    BY DEF Held
  <2>5. fate'[d] # "running"
    BY <2>1 DEF Held
  <2>6. ASSUME fate'[d] = "queued" PROVE InResults(d)'
    <3>1. CASE d = wcmd
      BY <2>1, <2>3, <2>4, <3>1 DEF InResults
    <3>2. CASE d # wcmd
      <4>1. fate[d] = "queued" /\ ~(RingEvicts(s) /\ d = Head(s))
        BY <2>1, <2>6, <3>2
      <4>2. PICK r \in Queues : d \in ToSet(results[r])
        BY <4>1 DEF Held, InResults
      <4>3. d \in ToSet(results'[r])
        BY <2>3, <2>4, <2>d, <4>1, <4>2
      <4> QED
        BY <4>3 DEF InResults
    <3> QED
      BY <3>1, <3>2
  <2>7. fate'[d] = "popping" => InPoll(d)'
    BY <2>1 DEF Held, InPoll
  <2>8. d \in ToSet(game_work)' => fate'[d] # "done"
    BY <2>1 DEF Held
  <2> QED
    BY <2>5, <2>6, <2>7, <2>8
<1>9. ASSUME GameClearsPending \/ \E dies \in BOOLEAN : GameUsesFreed(dies) PROVE Held'
  <2>1. /\ game_work # <<>> /\ game_work' = Tail(game_work)
        /\ UNCHANGED <<fate, wcmd, results, res, kept>>
    BY <1>t, <1>9 DEF GameClearsPending, GameUsesFreed, GameTypes
  <2>2. ToSet(game_work') \subseteq ToSet(game_work)
    BY <1>a, <2>1, SetOfSequence
  <2> QED
    BY <2>1, <2>2, HeldKept
<1>10. ASSUME NEW p \in Pollers, PopTakes(p) PROVE Held'
  <2>a. /\ PollerQueue[p] \in Queues /\ results[PollerQueue[p]] \in Seq(Cmds)
        /\ results[PollerQueue[p]] # <<>>
    BY <1>a, <1>10, ConstantsAssumption DEF PopTakes
  <2>1. PICK q \in Queues, s \in Seq(Cmds), c \in Cmds :
          /\ s = results[q] /\ s # <<>> /\ c = s[Len(s)]
          /\ results' = [results EXCEPT ![q] = Front(s)]
          /\ fate' = [fate EXCEPT ![c] = "popping"]
          /\ \/ res' = [res EXCEPT ![p] = Append(@, c)] /\ kept' = kept
             \/ kept' = [kept EXCEPT ![p] = Append(@, c)] /\ res' = res
          /\ UNCHANGED <<wcmd, game_work>>
    <3> DEFINE z == results[PollerQueue[p]]
    <3>1. z[Len(z)] \in Cmds
      BY <2>a
    <3>2. /\ results' = [results EXCEPT ![PollerQueue[p]] = Front(z)]
          /\ fate' = [fate EXCEPT ![z[Len(z)]] = "popping"]
          /\ \/ res' = [res EXCEPT ![p] = Append(@, z[Len(z)])] /\ kept' = kept
             \/ kept' = [kept EXCEPT ![p] = Append(@, z[Len(z)])] /\ res' = res
          /\ UNCHANGED <<wcmd, game_work>>
      BY <1>10 DEF PopTakes
    <3> QED
      BY <2>a, <3>1, <3>2, Zenon
  <2>2. ToSet(s) = ToSet(Front(s)) \cup {c}
    BY <2>1, SetOfSequence
  <2>3. /\ results'[q] = Front(s) /\ \A r \in Queues : r # q => results'[r] = results[r]
        /\ fate'[c] = "popping" /\ \A d \in Cmds : d # c => fate'[d] = fate[d]
    BY <1>t, <2>1, <2>2 DEF QueueTypes, HistTypes
  <2>4. /\ c \in ToSet(res'[p]) \/ c \in ToSet(kept'[p])
        /\ \A r \in Pollers : ToSet(res[r]) \subseteq ToSet(res'[r])
                              /\ ToSet(kept[r]) \subseteq ToSet(kept'[r])
    <3>1. /\ ToSet(Append(res[p], c)) = ToSet(res[p]) \cup {c}
          /\ ToSet(Append(kept[p], c)) = ToSet(kept[p]) \cup {c}
      BY <1>a, SetOfSequence
    <3>2. CASE res' = [res EXCEPT ![p] = Append(@, c)] /\ kept' = kept
      BY <1>t, <3>1, <3>2 DEF PollTypes
    <3>3. CASE kept' = [kept EXCEPT ![p] = Append(@, c)] /\ res' = res
      BY <1>t, <3>1, <3>3 DEF PollTypes
    <3> QED
      BY <2>1, <3>2, <3>3
  <2>5. \A d \in Cmds : d # c /\ InResults(d) => InResults(d)'
    BY <2>1, <2>2, <2>3 DEF InResults
  <2>6. InPoll(c)' /\ \A d \in Cmds : InPoll(d) => InPoll(d)'
    BY <2>4 DEF InPoll
  <2> QED
    BY <2>1, <2>2, <2>3, <2>5, <2>6 DEF Held
<1>11. ASSUME NEW p \in Pollers, PopEnds(p) PROVE Held'
  <2> DEFINE q == PollerQueue[p]
  <2>1. /\ q \in Queues /\ results[q] = <<>>
        /\ results' = [results EXCEPT ![q] = kept[p]]
        /\ fate' = [c \in Cmds |-> IF c \in ToSet(kept[p]) THEN "queued" ELSE fate[c]]
        /\ kept' = [kept EXCEPT ![p] = <<>>]
        /\ UNCHANGED <<wcmd, game_work, res>>
    BY <1>11, ConstantsAssumption DEF PopEnds, PutsBack
  <2>2. /\ results'[q] = kept[p] /\ \A r \in Queues : r # q => results'[r] = results[r]
        /\ \A r \in Pollers : r # p => kept'[r] = kept[r]
    BY <1>t, <2>1 DEF QueueTypes, PollTypes
  <2> HIDE DEF q
  <2>3. ToSet(results[q]) = {}
    BY <2>1 DEF ToSet
  <2>4. \A c \in Cmds : InResults(c) \/ c \in ToSet(kept[p]) => InResults(c)'
    BY <2>1, <2>2, <2>3 DEF InResults
  <2>5. \A c \in Cmds : InPoll(c) /\ c \notin ToSet(kept[p]) => InPoll(c)'
    BY <2>1, <2>2 DEF InPoll
  <2> QED
    BY <2>1, <2>4, <2>5 DEF Held
<1>12. ASSUME NEW p \in Pollers, NEW dies \in BOOLEAN, PopUsesFreed(p, dies) PROVE Held'
  <2>1. /\ fate' = [c \in Cmds |-> IF c \in ToSet(kept[p]) THEN "destroyed" ELSE fate[c]]
        /\ kept' = [kept EXCEPT ![p] = <<>>]
        /\ UNCHANGED <<wcmd, game_work, res, results>>
    BY <1>12 DEF PopUsesFreed
  <2>2. \A r \in Pollers : r # p => kept'[r] = kept[r]
    BY <1>t, <2>1 DEF PollTypes
  <2>3. \A c \in Cmds : InPoll(c) /\ c \notin ToSet(kept[p]) => InPoll(c)'
    BY <2>1, <2>2 DEF InPoll
  <2>4. \A c \in Cmds : InResults(c) => InResults(c)'
    BY <2>1 DEF InResults
  <2> QED
    BY <2>1, <2>3, <2>4 DEF Held
<1>13. ASSUME NEW p \in Pollers, FlushReturns(p) PROVE Held'
  <2>1. /\ fate' = [c \in Cmds |-> IF c \in ToSet(res[p]) THEN "delivered" ELSE fate[c]]
        /\ res' = [res EXCEPT ![p] = <<>>]
        /\ UNCHANGED <<wcmd, game_work, kept, results>>
    BY <1>13 DEF FlushReturns
  <2>2. \A r \in Pollers : r # p => res'[r] = res[r]
    BY <1>t, <2>1 DEF PollTypes
  <2>3. \A c \in Cmds : InPoll(c) /\ c \notin ToSet(res[p]) => InPoll(c)'
    BY <2>1, <2>2 DEF InPoll
  <2>4. \A c \in Cmds : InResults(c) => InResults(c)'
    BY <2>1 DEF InResults
  <2> QED
    BY <2>1, <2>3, <2>4 DEF Held
<1> QED
  BY <1>1, <1>2, <1>3, <1>4, <1>5, <1>6, <1>7, <1>8, <1>9, <1>10, <1>11, <1>12, <1>13
     DEF Next, Submitter, Submit, Caller, ExecuteBuiltin, Owner, Shutdown, Worker, GameLoop, Poller

(* No poll frees a command that the game loop still has to finish: the raw   *)
(* pointer in CBGameCommand's work dangles only after the result was lost.   *)
THEOREM DanglingExplained == Spec => []DanglingOnlyIfLost
<1>1. Init => Held
  BY DEF Init, Held, ToSet
<1>2. IInv /\ Held => DanglingOnlyIfLost
  <2> SUFFICES ASSUME IInv, Held, NEW c \in Cmds, c \in ToSet(game_work), Freed(c)
               PROVE  fate[c] \in Lost
    BY DEF DanglingOnlyIfLost
  <2>1. pending[c]
    BY Places
  <2>2. fate[c] # "delivered"
    BY <2>1, Zenon DEF IInv, AnsweredDone
  <2>3. PICK j \in 1..Len(game_work) : game_work[j] = c
    BY InToSet DEF IInv, TypeInv, TypeOK, GameTypes
  <2>4. fate[c] \notin {"unused", "work"}
    BY <2>3 DEF IInv, GameOwns
  <2>5. fate[c] \notin {"running", "queued", "popping", "done"}
    BY DEF Held, Freed, InResults, InPoll
  <2>6. fate[c] \in Fates
    BY DEF IInv, TypeInv, TypeOK, HistTypes
  <2> QED
    BY <2>2, <2>4, <2>5, <2>6 DEF Fates
<1>3. Spec => [](IInv /\ Held)
  BY <1>1, OwnerInit, OwnerNext, HeldNext, PTL DEF Spec
<1> QED
  BY <1>2, <1>3, PTL


-----------------------------------------------------------------------------
(* Answers are final.  Everybody who writes to a command finds it in a place *)
(* where an answered one is not: the worker writes to what it runs, the game *)
(* loop to what is pending.                                                  *)

Same(c) == result_code'[c] = result_code[c] /\ data'[c] = data[c] /\ pending'[c] = pending[c]
StaysDelivered(c) == fate[c] = "delivered" => fate'[c] = "delivered"

(* A step leaves a command that a poll has taken or answered as it was. *)
LEMMA FinalStep ==
  ASSUME IInv, [Next]_vars, NEW c \in Cmds, fate[c] \in {"popping", "delivered"}, ~pending[c]
  PROVE  Same(c) /\ StaysDelivered(c)
<1> USE DEF cmdVars, workerVars, queueVars, gameVars, pollVars, callVars, histVars
<1>t. /\ CmdTypes /\ WorkerTypes /\ QueueTypes /\ GameTypes /\ PollTypes /\ HistTypes
      /\ WorkerOwns /\ WorkerInv
  BY DEF IInv, TypeInv, TypeOK
<1>a. /\ wpc \in Busy => c # wcmd
      /\ c \notin work_queue
      /\ \A q \in Queues : c \notin ToSet(results[q])
      /\ \A p \in Pollers : c \in ToSet(kept[p]) => fate[c] = "popping"
      /\ c \notin ToSet(game_work)
  BY <1>t, Places
<1>1. ASSUME NEW r, Make(command_counter + 1, r) PROVE Same(c) /\ StaysDelivered(c)
  <2>1. /\ UNCHANGED <<result_code, data, pending>>
        /\ fate' = [fate EXCEPT ![command_counter + 1] = "work"]
    BY <1>1 DEF Make
  <2>2. fate[command_counter + 1] = "unused" /\ command_counter + 1 \in Cmds
    BY <1>1, <1>t, ConstantsAssumption DEF Make, CmdTypes, WorkerOwns, Cmds
  <2>3. fate'[c] = fate[c]
    BY <1>t, <2>1, <2>2 DEF HistTypes
  <2> QED
    BY <2>1, <2>3 DEF Same, StaysDelivered
<1>2. ASSUME \/ SubmitUnknown \/ ShutdownJoins \/ HandlerReturns \/ UNCHANGED vars
             \/ \E k \in Callers : BuiltinReturns(k)
             \/ \E dies \in BOOLEAN : GameUsesFreed(dies)
             \/ \E p \in Pollers : FlushFinds(p) \/ PopTimesOut(p) \/ PopBegins(p)
      PROVE  Same(c) /\ StaysDelivered(c)
  <2>1. UNCHANGED <<fate, result_code, data, pending>>
    BY <1>2 DEF SubmitUnknown, ShutdownJoins, HandlerReturns, BuiltinReturns, GameUsesFreed,
         FlushFinds, PopTimesOut, PopBegins, vars
  <2> QED
    BY <2>1 DEF Same, StaysDelivered
<1>3. ASSUME NEW d \in Cmds,
             WorkerCreatesQueue(d) \/ WorkerDestroysQueue(d) \/ WorkerShutsDown(d) \/ WorkerRuns(d)
      PROVE  Same(c) /\ StaysDelivered(c)
  <2>1. d # c /\ UNCHANGED <<data, pending>>
    BY <1>a, <1>3 DEF WorkerCreatesQueue, WorkerDestroysQueue, WorkerShutsDown, WorkerRuns,
         WorkerTakes, IsTop
  <2>2. result_code'[c] = result_code[c]
    BY <1>t, <1>3, <2>1 DEF WorkerCreatesQueue, WorkerDestroysQueue, WorkerShutsDown, WorkerRuns,
         BuiltinDone, CmdTypes
  <2>3. fate'[c] = fate[c]
    <3>1. CASE WorkerDestroysQueue(d)
      <4>1. cmd[d].queue_id \in Queues
        BY <1>t, <3>1 DEF WorkerDestroysQueue, WorkerTakes, IsTop, WorkerInv, CommandType
      <4> QED
        BY <1>a, <2>1, <3>1, <4>1 DEF WorkerDestroysQueue
    <3>2. CASE ~WorkerDestroysQueue(d)
      BY <1>t, <1>3, <2>1, <3>2 DEF WorkerCreatesQueue, WorkerShutsDown, WorkerRuns, HistTypes
    <3> QED
      BY <3>1, <3>2
  <2> QED
    BY <2>1, <2>2, <2>3 DEF Same, StaysDelivered
<1>4. ASSUME HandlerThrows \/ HandlerDefers \/ SaveCommandResult \/ StoreResultCode
      PROVE  Same(c) /\ StaysDelivered(c)
  <2>1. c # wcmd /\ fate' = fate
    BY <1>a, <1>4 DEF HandlerThrows, HandlerDefers, SaveCommandResult, StoreResultCode, Busy
  <2>2. Same(c)
    BY <1>t, <1>4, <2>1 DEF HandlerThrows, HandlerDefers, SaveCommandResult, StoreResultCode,
         CmdTypes, Same
  <2> QED
    BY <2>1, <2>2 DEF StaysDelivered
<1>5. ASSUME CheckPending \/ EmplaceNoQueue
      PROVE  Same(c) /\ StaysDelivered(c)
  BY <1>a, <1>t, <1>5 DEF CheckPending, EmplaceNoQueue, Busy, HistTypes, Same, StaysDelivered
<1>6. ASSUME EmplaceResult
      PROVE  Same(c) /\ StaysDelivered(c)
  <2> DEFINE q == cmd[wcmd].queue_id
  <2>1. /\ c # wcmd /\ q \in Queues /\ UNCHANGED <<result_code, data, pending>>
        /\ fate' = [d \in Cmds |-> IF d = wcmd THEN "queued"
                                   ELSE IF RingEvicts(results[q]) /\ d = Head(results[q]) THEN "evicted"
                                   ELSE fate[d]]
    BY <1>a, <1>t, <1>6 DEF EmplaceResult, Busy, QueueTypes
  <2>2. ASSUME RingEvicts(results[q]) PROVE Head(results[q]) \in ToSet(results[q])
    <3>1. results[q] \in Seq(Cmds) /\ results[q] # <<>>
      BY <1>t, <2>1, <2>2, ConstantsAssumption DEF QueueTypes, RingEvicts
    <3> QED
      BY <3>1, SetOfSequence
  <2>3. fate'[c] = fate[c]
    BY <1>a, <2>1, <2>2
  <2> QED
    BY <2>1, <2>3 DEF Same, StaysDelivered
<1>7. ASSUME GameClearsPending \/ \E throws \in BOOLEAN : GameExecutes(throws)
      PROVE  Same(c) /\ StaysDelivered(c)
  <2>1. game_work # <<>> /\ fate' = fate
    BY <1>t, <1>7 DEF GameClearsPending, GameExecutes, GameTypes
  <2>2. Head(game_work) \in ToSet(game_work)
    BY <1>t, <2>1, SetOfSequence DEF GameTypes
  <2>3. c # Head(game_work)
    BY <1>a, <2>2
  <2>4. Same(c)
    BY <1>t, <1>7, <2>3 DEF GameClearsPending, GameExecutes, ClearedPending, CmdTypes, Same
  <2> QED
    BY <2>1, <2>4 DEF StaysDelivered
<1>8. ASSUME NEW p \in Pollers, PopTakes(p)
      PROVE  Same(c) /\ StaysDelivered(c)
  <2>1. PICK s \in Seq(Cmds), q \in Queues : s = results[q] /\ q = PollerQueue[p]
    BY <1>t, ConstantsAssumption DEF QueueTypes
  <2>2. s # <<>> /\ fate' = [fate EXCEPT ![s[Len(s)]] = "popping"]
        /\ UNCHANGED <<result_code, data, pending>>
    BY <1>8, <2>1 DEF PopTakes
  <2>3. s[Len(s)] \in ToSet(s)
    BY <2>2, SetOfSequence
  <2>4. fate'[c] = fate[c]
    BY <1>a, <1>t, <2>1, <2>2, <2>3 DEF HistTypes
  <2> QED
    BY <2>2, <2>4 DEF Same, StaysDelivered
<1>9. ASSUME NEW p \in Pollers,
             PopEnds(p) \/ FlushReturns(p) \/ \E dies \in BOOLEAN : PopUsesFreed(p, dies)
      PROVE  Same(c) /\ StaysDelivered(c)
  <2>1. UNCHANGED <<result_code, data, pending>>
    BY <1>9 DEF PopEnds, FlushReturns, PopUsesFreed
  <2>2. StaysDelivered(c)
    BY <1>a, <1>9 DEF PopEnds, FlushReturns, PopUsesFreed, StaysDelivered
  <2> QED
    BY <2>1, <2>2 DEF Same
<1> QED
  BY <1>1, <1>2, <1>3, <1>4, <1>5, <1>6, <1>7, <1>8, <1>9
     DEF Next, Submitter, Submit, Caller, ExecuteBuiltin, Owner, Shutdown, Worker, GameLoop, Poller

(* A result does not change after a poll has taken it, though the answer is  *)
(* built without the lock of the queue.                                      *)
THEOREM AnsweredFinal == Spec => DeliveredFinal
<1>1. ASSUME IInv, [Next]_vars, NEW c \in Cmds,
             Delivered(c) \/ \E p \in Pollers : c \in ToSet(res[p])
      PROVE  /\ result_code'[c] = result_code[c]
             /\ data'[c] = data[c]
             /\ pending'[c] = pending[c]
             /\ Delivered(c) => fate'[c] = "delivered"
  <2>1. fate[c] \in {"popping", "delivered"} /\ (Delivered(c) => fate[c] = "delivered")
    BY <1>1, Places
  <2>2. ~pending[c]
    <3>1. CASE Delivered(c)
      BY <1>1, <2>1, <3>1, Zenon DEF IInv, AnsweredDone
    <3>2. ASSUME NEW p \in Pollers, c \in ToSet(res[p]) PROVE ~pending[c]
      <4>1. res[p] \in Seq(Cmds)
        BY <1>1 DEF IInv, TypeInv, TypeOK, PollTypes
      <4>2. PICK j \in 1..Len(res[p]) : res[p][j] = c
        BY <3>2, <4>1, InToSet
      <4>3. ~pending[res[p][j]]
        BY <1>1, Zenon DEF IInv, PollerOwns
      <4> QED
        BY <4>2, <4>3
    <3> QED
      BY <1>1, <3>1, <3>2
  <2> QED
    BY <1>1, <2>1, <2>2, FinalStep DEF Same, StaysDelivered
<1>2. IInv /\ [Next]_vars
        => [\A c \in Cmds : Delivered(c) \/ (\E p \in Pollers : c \in ToSet(res[p])) =>
              /\ result_code'[c] = result_code[c]
              /\ data'[c] = data[c]
              /\ pending'[c] = pending[c]
              /\ Delivered(c) => fate'[c] = "delivered"]_vars
  BY <1>1
<1> QED
  BY <1>2, Ownership, PTL DEF Spec, DeliveredFinal

=============================================================================
