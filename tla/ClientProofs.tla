---------------------------- MODULE ClientProofs ----------------------------
(***************************************************************************)
(* Proofs about Client: its steps implement Driver's, and no key of a load *)
(* is lost, for every number of threads, records, operations and every     *)
(* mix of operations.                                                      *)
(***************************************************************************)
EXTENDS Client, DriverProofs, FiniteSetTheorems

(***************************************************************************)
(* A worker's step inside an operation stutters in Driver, and the last    *)
(* step of an operation is Driver's WorkerOp.                              *)
(***************************************************************************)
LEMMA WorkerSimulation ==
  ASSUME NEW k \in Workers, ClientWorkerNext(k)
  PROVE  WorkerNext(k) \/ UNCHANGED vars
  <1>1. CASE DoInsert(k)
    BY <1>1 DEF DoInsert, StartOp, OpGoes
  <1>2. CASE TransactionInsert(k)
    BY <1>2 DEF TransactionInsert, StartOp, OpGoes
  <1>3. ASSUME NEW kind \in DOMAIN FirstStep, TransactionStart(k, kind)
        PROVE  UNCHANGED vars
    BY <1>3 DEF TransactionStart, StartOp, OpGoes
  <1>4. CASE ReadHit(k) \/ MissStore(k)
    BY <1>4 DEF ReadHit, MissStore, AfterRead, OpGoes, OpDone, WorkerNext
  <1>5. CASE ReadMiss(k) \/ MissLoad(k)
    BY <1>5 DEF ReadMiss, MissLoad, OpGoes
  <1>6. CASE Write(k) \/ Scan(k)
    BY <1>6 DEF Write, Scan, OpDone, WorkerNext
  <1>7. CASE OpFails(k) \/ WorkerInit(k) \/ WorkerReturn(k) \/ ExitProcess(k)
    BY <1>7 DEF OpFails, WorkerNext
  <1> QED BY <1>1, <1>2, <1>3, <1>4, <1>5, <1>6, <1>7 DEF ClientWorkerNext

(***************************************************************************)
(* Every step of Client is a step of Driver or leaves Driver's state as it *)
(* is.                                                                     *)
(***************************************************************************)
LEMMA StepSimulation == [ClientNext]_allVars => [Next]_vars
  <1> SUFFICES ASSUME [ClientNext]_allVars PROVE [Next]_vars
    OBVIOUS
  <1>1. CASE ClientMainNext
    BY <1>1 DEF ClientMainNext, ClientInitWorkload, ClientEndPhase, MainNext, Next
  <1>2. ASSUME NEW k \in Workers, ClientWorkerNext(k) PROVE [Next]_vars
    BY <1>2, WorkerSimulation DEF Next
  <1>3. CASE MyNext \/ RocksNext \/ WildCall \/ Kill \/ Over
    BY <1>3 DEF Next
  <1>4. CASE ClientRestart
    BY <1>4 DEF ClientRestart, Next
  <1>5. CASE UNCHANGED allVars
    BY <1>5 DEF allVars
  <1> QED BY <1>1, <1>2, <1>3, <1>4, <1>5 DEF ClientNext

(***************************************************************************)
(* The benchmark with its operations taken apart implements Driver: what   *)
(* holds of Driver's state in every behaviour of Driver holds in every     *)
(* behaviour of Client.                                                    *)
(***************************************************************************)
THEOREM ClientImplementsDriver == ClientSpec => Spec
  <1>1. ClientInit => Init
    BY DEF ClientInit
  <1> QED BY <1>1, StepSimulation, PTL DEF ClientSpec, Spec

-----------------------------------------------------------------------------
(* Types *)

OpRecord == [step : {"idle", "get", "miss", "count", "put", "scan"},
             kind : Kinds \cup {"none"}, num : Nat, reg : Nat]

(***************************************************************************)
(* The keys a transaction can draw are numbers.                            *)
(***************************************************************************)
LEMMA KeyType == NextTransactionKey \subseteq Nat
  BY DriverAssumption, ClientAssumption DEF NextTransactionKey, KeyNums, LastInserted

(***************************************************************************)
(* Starting, advancing and ending an operation keep op a function of       *)
(* operation records.                                                      *)
(***************************************************************************)
LEMMA OpType ==
  ASSUME op \in [Workers -> OpRecord], NEW k \in Workers
  PROVE  /\ OpDone(k) => op' \in [Workers -> OpRecord]
         /\ \A kind \in Kinds, step \in {"get", "put", "scan"}, n \in Nat :
              StartOp(k, kind, step, n) => op' \in [Workers -> OpRecord]
         /\ \A step \in {"miss", "put"} :
              OpGoes(k, [op[k] EXCEPT !.step = step]) => op' \in [Workers -> OpRecord]
         /\ \A n \in Nat : OpGoes(k, [op[k] EXCEPT !.step = "count", !.reg = n])
              => op' \in [Workers -> OpRecord]
  <1>1. Idle \in OpRecord
    BY DEF Idle, OpRecord
  <1>2. op[k] \in OpRecord
    OBVIOUS
  <1>3. op[k] = [step |-> op[k].step, kind |-> op[k].kind, num |-> op[k].num, reg |-> op[k].reg]
    BY <1>2 DEF OpRecord
  <1>4. OpDone(k) => op' \in [Workers -> OpRecord]
    BY <1>1 DEF OpDone
  <1>5. ASSUME NEW kind \in Kinds, NEW step \in {"get", "put", "scan"}, NEW n \in Nat,
               StartOp(k, kind, step, n)
        PROVE  op' \in [Workers -> OpRecord]
    <2>1. [step |-> step, kind |-> kind, num |-> n, reg |-> 0] \in OpRecord
      BY DEF OpRecord
    <2> QED BY <1>5, <2>1 DEF StartOp, OpGoes
  <1>6. ASSUME NEW step \in {"miss", "put"}, OpGoes(k, [op[k] EXCEPT !.step = step])
        PROVE  op' \in [Workers -> OpRecord]
    <2>1. [op[k] EXCEPT !.step = step] \in OpRecord
      BY <1>2 DEF OpRecord
    <2> QED BY <1>6, <2>1 DEF OpGoes
  <1>7. ASSUME NEW n \in Nat, OpGoes(k, [op[k] EXCEPT !.step = "count", !.reg = n])
        PROVE  op' \in [Workers -> OpRecord]
    <2>1. [op[k] EXCEPT !.step = "count", !.reg = n] \in OpRecord
      BY <1>2, <1>3 DEF OpRecord
    <2> QED BY <1>7, <2>1 DEF OpGoes
  <1> QED BY <1>4, <1>5, <1>6, <1>7

(***************************************************************************)
(* A worker's step keeps the types of what the operations work on.         *)
(***************************************************************************)
LEMMA ClientTypeWorker ==
  ASSUME ClientTypeOK, TypeOK', NEW k \in Workers, ClientWorkerNext(k)
  PROVE  ClientTypeOK'
  <1> USE DEF ClientTypeOK
  <1>0. op \in [Workers -> OpRecord]
    BY DEF OpRecord
  <1>1. CASE DoInsert(k)
    <2>1. op' \in [Workers -> OpRecord]
      BY <1>0, <1>1, OpType DEF DoInsert, Kinds
    <2> QED BY <1>1, <2>1 DEF DoInsert, OpRecord
  <1>2. CASE TransactionInsert(k)
    <2>1. op' \in [Workers -> OpRecord]
      BY <1>0, <1>2, OpType DEF TransactionInsert, Kinds
    <2> QED BY <1>2, <2>1 DEF TransactionInsert, OpRecord
  <1>3. ASSUME NEW kind \in DOMAIN FirstStep, TransactionStart(k, kind)
        PROVE  ClientTypeOK'
    <2>1. kind \in Kinds /\ FirstStep[kind] \in {"get", "put", "scan"}
      BY DEF FirstStep, Kinds
    <2>2. PICK n \in NextTransactionKey : StartOp(k, kind, FirstStep[kind], n)
      BY <1>3 DEF TransactionStart
    <2>3. op' \in [Workers -> OpRecord]
      BY <1>0, <2>1, <2>2, KeyType, OpType
    <2> QED BY <1>3, <2>3 DEF TransactionStart, OpRecord
  <1>4. CASE ReadHit(k)
    <2>1. op' \in [Workers -> OpRecord]
      BY <1>0, <1>4, OpType DEF ReadHit, AfterRead
    <2> QED BY <1>4, <2>1 DEF ReadHit, OpRecord
  <1>5. CASE ReadMiss(k)
    <2>1. op' \in [Workers -> OpRecord]
      BY <1>0, <1>5, OpType DEF ReadMiss
    <2> QED BY <1>5, <2>1 DEF ReadMiss, OpRecord
  <1>6. CASE MissLoad(k)
    <2>1. op' \in [Workers -> OpRecord]
      BY <1>0, <1>6, OpType DEF MissLoad
    <2> QED BY <1>6, <2>1 DEF MissLoad, OpRecord
  <1>7. CASE MissStore(k)
    <2>1. op' \in [Workers -> OpRecord]
      BY <1>0, <1>7, OpType DEF MissStore, AfterRead
    <2>2. noResult' \in Nat
      BY <1>0, <1>7 DEF MissStore, OpRecord
    <2> QED BY <1>7, <2>1, <2>2 DEF MissStore, OpRecord
  <1>8. CASE Write(k)
    <2>1. op' \in [Workers -> OpRecord]
      BY <1>0, <1>8, OpType DEF Write
    <2>2. \A n \in DOMAIN store' : store'[n] \subseteq Fields
      <3>1. ASSUME NEW fs \in ValuesOf(op[k]), Put(NameOf(op[k]), fs)
            PROVE  \A n \in DOMAIN store' : store'[n] \subseteq Fields
        <4>1. fs \subseteq Fields
          BY DEF ValuesOf
        <4> QED BY <3>1, <4>1 DEF Put
      <3> QED BY <1>8, <3>1 DEF Write
    <2> QED BY <1>8, <2>1, <2>2 DEF Write, OpRecord
  <1>9. CASE Scan(k)
    <2>1. op' \in [Workers -> OpRecord]
      BY <1>0, <1>9, OpType DEF Scan
    <2> QED BY <1>9, <2>1 DEF Scan, OpRecord
  <1>10. CASE UNCHANGED clientVars
    BY <1>10 DEF clientVars
  <1> QED BY <1>1, <1>2, <1>3, <1>4, <1>5, <1>6, <1>7, <1>8, <1>9, <1>10
          DEF ClientWorkerNext, OpFails

(***************************************************************************)
(* The keys, the operations and the records have their types throughout.   *)
(***************************************************************************)
THEOREM ClientTypeCorrect == ClientSpec => []ClientTypeOK
  <1>0. ClientSpec => []TypeOK
    BY ClientImplementsDriver, TypeCorrect, PTL
  <1>1. ClientInit /\ TypeOK => ClientTypeOK
    BY ClientAssumption DEF ClientInit, ClientTypeOK, Idle
  <1>2. ClientTypeOK /\ TypeOK' /\ [ClientNext]_allVars => ClientTypeOK'
    <2> SUFFICES ASSUME ClientTypeOK, TypeOK', [ClientNext]_allVars PROVE ClientTypeOK'
      OBVIOUS
    <2>1. ASSUME NEW k \in Workers, ClientWorkerNext(k) PROVE ClientTypeOK'
      BY <2>1, ClientTypeWorker
    <2>2. CASE ClientInitWorkload
      BY <2>2, ClientAssumption DEF ClientInitWorkload, ClientTypeOK
    <2>3. CASE ClientEndPhase
      <3>1. loaded' \in Nat
        BY <2>3 DEF ClientEndPhase, ClientTypeOK, TypeOK
      <3> QED BY <2>3, <3>1 DEF ClientEndPhase, ClientTypeOK
    <2>4. CASE ClientRestart
      BY <2>4, ClientAssumption DEF ClientRestart, ClientTypeOK, Idle
    <2>5. CASE UNCHANGED clientVars
      BY <2>5 DEF clientVars, ClientTypeOK
    <2> QED BY <2>1, <2>2, <2>3, <2>4, <2>5 DEF ClientNext, ClientMainNext, allVars
  <1> QED BY <1>0, <1>1, <1>2, PTL DEF ClientSpec

-----------------------------------------------------------------------------
(* No key of a load is lost *)

(***************************************************************************)
(* NoKeyLost is inductive together with where operations can be under way: *)
(* only in a worker inside its loop (or on its way out of the process),    *)
(* and in a load only DoInsert, so that what a worker writes is the key it *)
(* was handed.                                                             *)
(***************************************************************************)
OpAt ==
  \A k \in Workers : op[k].step # "idle" =>
    worker[k].pc \in {"loop", "exit"} /\ worker[k].i < NumOps(phase)

LoadOps ==
  phase = "load" => \A k \in Workers :
    op[k].step = "idle" \/ (op[k].step = "put" /\ op[k].kind = "LOAD")

KeysInv == OpAt /\ LoadOps /\ NoKeyLost

\* What the proofs of the steps start from.
Known == DriverInv /\ DriverInv' /\ ClientTypeOK /\ KeysInv

(***************************************************************************)
(* Between the phases no operation is under way.                           *)
(***************************************************************************)
LEMMA AllIdle ==
  ASSUME Stages, OpAt, pc \notin Busy
  PROVE  \A k \in Workers : op[k].step = "idle"
  BY DEF Stages, OpAt

\* Main's steps, but for the two that start and end a phase.
QuietMainStep ==
  \/ CreateBasic \/ CreateCloud \/ LaunchWorker \/ EndLaunch \/ JoinWorker \/ PrintStats
  \/ SetFinish \/ SetDone \/ JoinMy \/ JoinRocks \/ DeleteDB \/ Return

(***************************************************************************)
(* Main's steps, but for the two that start and end a phase, leave the     *)
(* operations and the keys alone.                                          *)
(***************************************************************************)
LEMMA KeysMain ==
  ASSUME Known, QuietMainStep, UNCHANGED clientVars
  PROVE  KeysInv'
  <1> USE DEF Known, KeysInv
  <1>1. CASE CreateBasic \/ CreateCloud
    <2>1. pc = "create" /\ wl' = wl /\ worker' = worker /\ op' = op
      BY <1>1 DEF CreateBasic, CreateCloud, OpenDB, At, clientVars
    <2>2. \A k \in Workers : op'[k].step = "idle"
      BY <2>1, AllIdle DEF DriverInv, Busy
    <2>3. ~wl'
      BY <2>1 DEF DriverInv, Stages, Busy, TypeOK
    <2> QED BY <2>2, <2>3 DEF OpAt, LoadOps, NoKeyLost, Workers
  <1>2. CASE LaunchWorker
    <2>1. futures \in Workers /\ worker[futures].pc = "none"
      BY <1>2, CommandType DEF LaunchWorker, At, DriverInv, Stages, Busy, TypeOK, Workers
    <2>2. op[futures].step = "idle"
      BY <2>1 DEF OpAt
    <2>3. OpAt'
      BY <1>2, <2>1, <2>2 DEF LaunchWorker, OpAt, NumOps, clientVars, Workers, DriverInv, TypeOK
    <2> QED BY <1>2, <2>3 DEF LaunchWorker, LoadOps, NoKeyLost, Reaches, Running,
                              BuildKeyName, clientVars, Workers
  <1>3. CASE EndLaunch \/ JoinWorker \/ PrintStats \/ SetFinish \/ SetDone \/ JoinMy
             \/ JoinRocks
    <2>1. UNCHANGED <<proc, worker, phase, cmd, wl, db>>
      BY <1>3 DEF EndLaunch, JoinWorker, PrintStats, SetFinish, SetDone, JoinMy, JoinRocks,
                  JoinStat
    <2> QED BY <2>1 DEF OpAt, LoadOps, NoKeyLost, NumOps, Reaches, Running, BuildKeyName,
                        clientVars, Workers
  <1>4. CASE DeleteDB \/ Return
    <2>1. UNCHANGED <<worker, phase, cmd, wl>> /\ (db' = "deleted" \/ ~Running')
      BY <1>4 DEF DeleteDB, Return, ExitStatus, Running
    <2> QED BY <2>1 DEF OpAt, LoadOps, NoKeyLost, NumOps, Reaches, clientVars, Workers
  <1> QED BY <1>1, <1>2, <1>3, <1>4 DEF QuietMainStep

(***************************************************************************)
(* A phase starts and ends with every worker idle, and starts with no key  *)
(* handed out.                                                             *)
(***************************************************************************)
LEMMA KeysPhase ==
  ASSUME Known, ClientInitWorkload \/ ClientEndPhase
  PROVE  KeysInv'
  <1> USE DEF Known, KeysInv
  <1>1. CASE ClientInitWorkload
    <2>1. \A k \in Workers : op[k].step = "idle"
      BY <1>1, AllIdle DEF ClientInitWorkload, InitWorkload, At, Busy, DriverInv
    <2>2. InsertStart..(key_generator' - 1) = {}
      BY <1>1, ClientAssumption DEF ClientInitWorkload
    <2> QED BY <1>1, <2>1, <2>2 DEF ClientInitWorkload, OpAt, LoadOps, NoKeyLost, Workers
  <1>2. CASE ClientEndPhase
    <2>1. \A k \in Workers : worker'[k].pc \in {"none", "returned"}
      <3>1. pc' \notin Busy
        BY <1>2 DEF ClientEndPhase, EndPhase, Advance, Busy
      <3> QED BY <3>1 DEF DriverInv, Stages, Workers
    <2>2. worker' = worker /\ op' = op /\ wl' = FALSE
      BY <1>2 DEF ClientEndPhase, EndPhase
    <2>3. \A k \in Workers : op[k].step = "idle"
      BY <2>1, <2>2 DEF OpAt
    <2> QED BY <2>2, <2>3 DEF OpAt, LoadOps, NoKeyLost, Workers
  <1> QED BY <1>1, <1>2

(***************************************************************************)
(* The steps of the statistics threads, and the ends of the process.       *)
(***************************************************************************)
LEMMA KeysOther ==
  ASSUME Known,
         StatStep \/ (\E how \in Ended : End(how)) \/ UNCHANGED vars,
         UNCHANGED clientVars
  PROVE  KeysInv'
  <1>1. UNCHANGED <<worker, phase, cmd, wl, db>> /\ (proc' = proc \/ ~Running')
    BY DEF StatStep, StatGoes, End, Ended, vars, Running
  <1> QED BY <1>1 DEF Known, KeysInv, OpAt, LoadOps, NoKeyLost, NumOps, Reaches, Running,
                      BuildKeyName, clientVars, Workers

(***************************************************************************)
(* The worker's steps outside its operations: it returns with none under   *)
(* way.                                                                    *)
(***************************************************************************)
LEMMA KeysWorker ==
  ASSUME Known, NEW k \in Workers, UNCHANGED clientVars,
         WorkerInit(k) \/ WorkerFails(k) \/ WorkerReturn(k)
  PROVE  KeysInv'
  <1> USE DEF Known, KeysInv
  <1>1. UNCHANGED <<proc, phase, cmd, wl, db>>
    BY DEF WorkerInit, WorkerFails, WorkerReturn, WorkerGoes
  <1>2. LoadOps' /\ NoKeyLost'
    BY <1>1 DEF LoadOps, NoKeyLost, Reaches, Running, BuildKeyName, clientVars, Workers
  <1>3. OpAt'
    <2>1. NumOps(phase)' = NumOps(phase)
      BY <1>1 DEF NumOps
    <2> SUFFICES ASSUME NEW j \in Workers, op[j].step # "idle"
                 PROVE  worker'[j].pc \in {"loop", "exit"} /\ worker'[j].i < NumOps(phase)
      BY <2>1 DEF OpAt, clientVars, Workers
    <2>2. worker[j].pc \in {"loop", "exit"} /\ worker[j].i < NumOps(phase)
      BY DEF OpAt
    <2>3. CASE j # k
      BY <2>2, <2>3 DEF WorkerInit, WorkerFails, WorkerReturn, WorkerGoes, DriverInv, TypeOK
    <2>4. CASE j = k
      <3>1. ~WorkerInit(k)
        BY <2>2, <2>4 DEF WorkerInit, WorkerAt
      <3>2. ~WorkerReturn(k)
        <4>1. worker[k].i \in Nat /\ NumOps(phase) \in Nat
          BY NumOpsType DEF DriverInv, TypeOK
        <4> QED BY <2>2, <2>4, <4>1 DEF WorkerReturn
      <3>3. worker' = [worker EXCEPT ![k] = [worker[k] EXCEPT !.pc = "exit"]]
        BY <3>1, <3>2 DEF WorkerFails, WorkerGoes
      <3> QED BY <2>2, <2>4, <3>3 DEF DriverInv, TypeOK
    <2> QED BY <2>3, <2>4
  <1> QED BY <1>2, <1>3

(***************************************************************************)
(* Inside an operation, and when one ends, operations stay where they can  *)
(* be under way.                                                           *)
(***************************************************************************)
LEMMA OpAtKept ==
  ASSUME Known, NEW k \in Workers, InLoop(k)
  PROVE  /\ \A o : OpGoes(k, o) => OpAt'
         /\ OpDone(k) => OpAt'
  <1> USE DEF Known, KeysInv, InLoop, WorkerAt
  <1>1. ASSUME NEW o, OpGoes(k, o) PROVE OpAt'
    <2>1. NumOps(phase)' = NumOps(phase) /\ worker' = worker
      BY <1>1 DEF OpGoes, vars, NumOps
    <2>2. \A j \in Workers : j # k => op'[j] = op[j]
      BY <1>1 DEF OpGoes, ClientTypeOK
    <2> QED BY <2>1, <2>2 DEF OpAt, Workers
  <1>2. ASSUME OpDone(k) PROVE OpAt'
    <2>1. NumOps(phase)' = NumOps(phase)
      BY <1>2 DEF OpDone, WorkerOp, WorkerGoes, NumOps
    <2>2. op'[k] = Idle /\ \A j \in Workers : j # k => op'[j] = op[j] /\ worker'[j] = worker[j]
      BY <1>2 DEF OpDone, WorkerOp, WorkerGoes, ClientTypeOK, DriverInv, TypeOK
    <2> QED BY <2>1, <2>2 DEF OpAt, Workers, Idle
  <1> QED BY <1>1, <1>2

(***************************************************************************)
(* DoInsert hands out a key, and its worker is then the one to write it.   *)
(***************************************************************************)
LEMMA KeysInsert ==
  ASSUME Known, NEW k \in Workers, DoInsert(k)
  PROVE  KeysInv'
  <1> DEFINE o == [step |-> "put", kind |-> "LOAD", num |-> key_generator, reg |-> 0]
  <1>1. /\ InLoop(k) /\ op[k].step = "idle" /\ phase = "load"
        /\ key_generator' = key_generator + 1
        /\ OpGoes(k, o) /\ store' = store
    BY DEF DoInsert, InClient, StartOp
  <1>2. OpAt'
    BY <1>1, OpAtKept
  <1>3. op'[k] = o /\ \A j \in Workers : j # k => op'[j] = op[j]
    BY <1>1 DEF OpGoes, Known, ClientTypeOK
  <1>4. UNCHANGED <<proc, phase, cmd, wl, db>>
    BY <1>1 DEF OpGoes, vars
  <1>5. LoadOps'
    BY <1>1, <1>3 DEF LoadOps, Known, KeysInv, Workers
  <1>6. NoKeyLost'
    <2> SUFFICES ASSUME Running, wl, Reaches, NEW n \in InsertStart..key_generator
                 PROVE  \/ BuildKeyName(n) \in DOMAIN store
                        \/ \E j \in Workers : op'[j].step = "put" /\ op'[j].num = n
      BY <1>1, <1>4, ClientAssumption
         DEF NoKeyLost, Running, Reaches, BuildKeyName, Workers, Known, ClientTypeOK
    <2>1. CASE n = key_generator
      BY <1>3, <2>1
    <2>2. CASE n # key_generator
      <3>1. n \in InsertStart..(key_generator - 1)
        BY <2>2, ClientAssumption DEF Known, ClientTypeOK
      <3>2. \/ BuildKeyName(n) \in DOMAIN store
            \/ \E j \in Workers : op[j].step = "put" /\ op[j].num = n
        BY <1>1, <3>1 DEF Known, KeysInv, NoKeyLost
      <3> QED BY <1>1, <1>3, <3>2
    <2> QED BY <2>1, <2>2
  <1> QED BY <1>2, <1>5, <1>6 DEF KeysInv

(***************************************************************************)
(* A write of the load phase puts the record of the key that was handed    *)
(* out, and removes no other.                                              *)
(***************************************************************************)
LEMMA KeysWrite ==
  ASSUME Known, NEW k \in Workers, Write(k)
  PROVE  KeysInv'
  <1>1. InLoop(k) /\ op[k].step = "put" /\ OpDone(k) /\ key_generator' = key_generator
    BY DEF Write, InClient
  <1>2. OpAt'
    BY <1>1, OpAtKept
  <1>3. op'[k] = Idle /\ \A j \in Workers : j # k => op'[j] = op[j]
    BY <1>1 DEF OpDone, Known, ClientTypeOK
  <1>4. UNCHANGED <<proc, phase, cmd, wl, db>>
    BY <1>1 DEF OpDone, WorkerOp, WorkerGoes
  <1>5. LoadOps'
    BY <1>3, <1>4 DEF LoadOps, Known, KeysInv, Workers, Idle
  <1>6. NoKeyLost'
    <2> SUFFICES ASSUME Running, phase = "load", wl, Reaches,
                        NEW n \in InsertStart..(key_generator - 1)
                 PROVE  \/ BuildKeyName(n) \in DOMAIN store'
                        \/ \E j \in Workers : op'[j].step = "put" /\ op'[j].num = n
      BY <1>1, <1>4 DEF NoKeyLost, Running, Reaches, BuildKeyName, Workers
    <2>1. PICK fs : Put(NameOf(op[k]), fs)
      BY DEF Write
    <2>2. NameOf(op[k]) = BuildKeyName(op[k].num)
      BY <1>1 DEF Known, KeysInv, LoadOps, NameOf
    <2>3. DOMAIN store' = DOMAIN store \cup {BuildKeyName(op[k].num)}
      BY <2>1, <2>2 DEF Put
    <2>4. \/ BuildKeyName(n) \in DOMAIN store
          \/ \E j \in Workers : op[j].step = "put" /\ op[j].num = n
      BY DEF Known, KeysInv, NoKeyLost
    <2>5. CASE BuildKeyName(n) \in DOMAIN store
      BY <2>3, <2>5
    <2>6. ASSUME NEW j \in Workers, op[j].step = "put", op[j].num = n
          PROVE  \/ BuildKeyName(n) \in DOMAIN store'
                 \/ \E l \in Workers : op'[l].step = "put" /\ op'[l].num = n
      <3>1. CASE j = k
        BY <2>3, <2>6, <3>1
      <3>2. CASE j # k
        BY <1>3, <2>6, <3>2
      <3> QED BY <3>1, <3>2
    <2> QED BY <2>4, <2>5, <2>6
  <1> QED BY <1>2, <1>5, <1>6 DEF KeysInv

(***************************************************************************)
(* The transactions are not of a load.                                     *)
(***************************************************************************)
LEMMA KeysTransaction ==
  ASSUME Known, NEW k \in Workers, InLoop(k),
         phase # "load",
         OpDone(k) \/ \E o : OpGoes(k, o)
  PROVE  KeysInv'
  <1>1. OpAt'
    BY OpAtKept
  <1>2. phase' = phase
    BY DEF OpDone, OpGoes, WorkerOp, WorkerGoes, vars
  <1> QED BY <1>1, <1>2 DEF KeysInv, LoadOps, NoKeyLost

(***************************************************************************)
(* A worker's step keeps the keys.                                         *)
(***************************************************************************)
LEMMA KeysClientWorker ==
  ASSUME Known, NEW k \in Workers, ClientWorkerNext(k)
  PROVE  KeysInv'
  <1> USE DEF InClient
  <1>0. op[k].step \notin {"idle", "put"} => phase # "load"
    BY DEF Known, KeysInv, LoadOps
  <1>1. CASE DoInsert(k)
    BY <1>1, KeysInsert
  <1>2. CASE TransactionInsert(k)
    <2>1. InLoop(k) /\ phase # "load" /\ \E o : OpGoes(k, o)
      BY <1>2 DEF TransactionInsert, StartOp
    <2> QED BY <2>1, KeysTransaction
  <1>3. ASSUME NEW kind \in DOMAIN FirstStep, TransactionStart(k, kind)
        PROVE  KeysInv'
    <2>1. InLoop(k) /\ phase # "load" /\ \E o : OpGoes(k, o)
      BY <1>3 DEF TransactionStart, StartOp
    <2> QED BY <2>1, KeysTransaction
  <1>4. CASE ReadHit(k) \/ MissStore(k)
    <2>1. InLoop(k) /\ phase # "load" /\ (OpDone(k) \/ \E o : OpGoes(k, o))
      BY <1>0, <1>4 DEF ReadHit, MissStore, AfterRead
    <2> QED BY <2>1, KeysTransaction
  <1>5. CASE ReadMiss(k) \/ MissLoad(k)
    <2>1. InLoop(k) /\ phase # "load" /\ \E o : OpGoes(k, o)
      BY <1>0, <1>5 DEF ReadMiss, MissLoad
    <2> QED BY <2>1, KeysTransaction
  <1>6. CASE Write(k)
    BY <1>6, KeysWrite
  <1>7. CASE Scan(k)
    <2>1. InLoop(k) /\ phase # "load" /\ OpDone(k)
      BY <1>0, <1>7 DEF Scan
    <2> QED BY <2>1, KeysTransaction
  <1>8. CASE OpFails(k)
    BY <1>8, KeysWorker DEF OpFails
  <1>9. CASE (WorkerInit(k) \/ WorkerReturn(k)) /\ UNCHANGED clientVars
    BY <1>9, KeysWorker
  <1>10. CASE ExitProcess(k) /\ UNCHANGED clientVars
    <2>1. \E how \in Ended : End(how)
      BY <1>10 DEF ExitProcess, ExitStatus, Ended
    <2> QED BY <1>10, <2>1, KeysOther
  <1> QED BY <1>1, <1>2, <1>3, <1>4, <1>5, <1>6, <1>7, <1>8, <1>9, <1>10 DEF ClientWorkerNext

(***************************************************************************)
(* The steps of the specification, sorted by what they change.             *)
(***************************************************************************)
LEMMA ClientSteps ==
  ASSUME [ClientNext]_allVars
  PROVE  \/ \E k \in Workers : ClientWorkerNext(k)
         \/ ClientInitWorkload \/ ClientEndPhase \/ ClientRestart
         \/ QuietMainStep /\ UNCHANGED clientVars
         \/ (StatStep \/ (\E how \in Ended : End(how)) \/ UNCHANGED vars) /\ UNCHANGED clientVars
  <1>1. CASE ClientMainNext /\ ~ClientInitWorkload /\ ~ClientEndPhase
    <2>1. UNCHANGED clientVars
      BY <1>1 DEF ClientMainNext
    <2>2. QuietMainStep \/ UNCHANGED vars \/ \E how \in Ended : End(how)
      BY <1>1 DEF ClientMainNext, QuietMainStep, CreateCloudExit, CreateUnknown, InitThrows,
                  LaunchThrows, JoinThrows, WaitCompaction, ExitStatus, Ended
    <2> QED BY <2>1, <2>2
  <1>2. CASE (MyNext \/ RocksNext \/ WildCall \/ Kill \/ Over) /\ UNCHANGED clientVars
    <2>1. StatStep \/ (\E how \in Ended : End(how)) \/ UNCHANGED vars
      BY <1>2 DEF MyNext, RocksNext, StatStep, StatOpen, MyWake, MySummary, StatReport,
                  MyReportThrows, RocksWake, RocksCheck, RocksAnnounce, RocksClear,
                  WildCall, Kill, Over, Ended, Threads
    <2> QED BY <1>2, <2>1
  <1>3. CASE UNCHANGED allVars
    BY <1>3 DEF allVars
  <1> QED BY <1>1, <1>2, <1>3 DEF ClientNext

(***************************************************************************)
(* The invariant behind NoKeyLost.                                         *)
(***************************************************************************)
LEMMA KeysInvariant == ClientSpec => [](DriverInv /\ ClientTypeOK /\ KeysInv)
  <1>1. ClientSpec => []DriverInv
    BY ClientImplementsDriver, DriverInvariant, PTL
  <1>2. ClientInit => KeysInv
    BY ClientAssumption DEF ClientInit, Init, KeysInv, OpAt, LoadOps, NoKeyLost, Idle
  <1>3. DriverInv /\ DriverInv' /\ ClientTypeOK /\ KeysInv /\ [ClientNext]_allVars => KeysInv'
    <2> SUFFICES ASSUME Known, [ClientNext]_allVars PROVE KeysInv'
      BY DEF Known
    <2>1. CASE ClientRestart
      <3>1. \A k \in Workers : op'[k].step = "idle"
        BY <2>1 DEF ClientRestart, Idle
      <3>2. ~wl'
        BY <2>1 DEF ClientRestart, Restart
      <3> QED BY <3>1, <3>2 DEF KeysInv, OpAt, LoadOps, NoKeyLost, Workers
    <2> QED BY <2>1, ClientSteps, KeysClientWorker, KeysPhase, KeysMain, KeysOther
  <1> QED BY <1>1, <1>2, <1>3, ClientTypeCorrect, PTL DEF ClientSpec

(***************************************************************************)
(* Every key that a load has handed out is in the DB or in the hands of a  *)
(* worker, whatever the number of workers that share the counter.          *)
(***************************************************************************)
THEOREM NoKeyIsLost == ClientSpec => []NoKeyLost
  BY KeysInvariant, PTL DEF KeysInv

-----------------------------------------------------------------------------
(* A completed load is durable *)

(***************************************************************************)
(* The operations the workers of the phase have started: the i-th          *)
(* operation of worker k is <<k, i>>.  While a load is under way there are *)
(* as many as keys were handed out, so what main sums up when every worker *)
(* has returned is the number of keys, none of which is lost.              *)
(***************************************************************************)
StartedOps ==
  {p \in Workers \X Nat :
     \/ p[2] < worker[p[1]].i
     \/ p[2] = worker[p[1]].i /\ op[p[1]].step # "idle"}

\* A worker that was not launched has done nothing.
Unlaunched == pc \in Busy => \A k \in Workers : worker[k].pc = "none" => worker[k].i = 0

OneKeyPerOp ==
  phase = "load" /\ pc \in Busy => key_generator = InsertStart + Cardinality(StartedOps)

DurableInv == Unlaunched /\ OneKeyPerOp /\ LoadIsDurable

\* What the proofs of the steps start from.
KnownDurable == Known /\ KeysInv' /\ ClientTypeOK' /\ DurableInv

(***************************************************************************)
(* A phase's workers have started finitely many operations, none of them   *)
(* beyond their share.                                                     *)
(***************************************************************************)
LEMMA StartedFinite ==
  ASSUME DriverInv, ClientTypeOK, OpAt, pc \in Busy
  PROVE  /\ StartedOps \subseteq Workers \X (0..(NumOps(phase) - 1))
         /\ IsFiniteSet(StartedOps)
         /\ Cardinality(StartedOps) \in Nat
  <1>1. NumOps(phase) \in Nat
    BY NumOpsType DEF DriverInv
  <1>2. ASSUME NEW k \in Workers
        PROVE  /\ worker[k].i \in Nat /\ worker[k].i <= NumOps(phase)
               /\ op[k].step # "idle" => worker[k].i < NumOps(phase)
    BY DEF DriverInv, TypeOK, Exact, OpAt
  <1>3. StartedOps \subseteq Workers \X (0..(NumOps(phase) - 1))
    BY <1>1, <1>2 DEF StartedOps
  <1>4. IsFiniteSet(Workers) /\ IsFiniteSet(0..(NumOps(phase) - 1))
    BY <1>1, FS_Interval, DriverAssumption DEF Workers
  <1>5. IsFiniteSet(Workers \X (0..(NumOps(phase) - 1)))
    BY <1>4, FS_Product
  <1> QED BY <1>3, <1>5, FS_Subset, FS_CardinalityType

(***************************************************************************)
(* Steps inside an operation, its last step, and the steps that leave the  *)
(* operations alone start none.                                            *)
(***************************************************************************)
LEMMA StartedSame ==
  ASSUME \A k \in Workers :
           \/ worker'[k].i = worker[k].i /\ (op'[k].step = "idle" <=> op[k].step = "idle")
           \/ /\ worker[k].i \in Nat /\ worker'[k].i = worker[k].i + 1
              /\ op[k].step # "idle" /\ op'[k].step = "idle"
  PROVE  StartedOps' = StartedOps
  BY DEF StartedOps, Workers

(***************************************************************************)
(* Starting an operation adds one.                                         *)
(***************************************************************************)
LEMMA StartedOne ==
  ASSUME DriverInv, ClientTypeOK, OpAt, pc \in Busy,
         NEW k \in Workers, NEW o, OpGoes(k, o), op[k].step = "idle", o.step # "idle"
  PROVE  /\ StartedOps' = StartedOps \cup {<<k, worker[k].i>>}
         /\ Cardinality(StartedOps') = Cardinality(StartedOps) + 1
  <1>1. worker' = worker /\ op'[k] = o /\ \A j \in Workers : j # k => op'[j] = op[j]
    BY DEF OpGoes, vars, ClientTypeOK
  <1>2. worker[k].i \in Nat
    BY DEF DriverInv, TypeOK
  <1>3. StartedOps' = StartedOps \cup {<<k, worker[k].i>>}
    BY <1>1, <1>2 DEF StartedOps, Workers
  <1>4. <<k, worker[k].i>> \notin StartedOps
    BY <1>2 DEF StartedOps
  <1> QED BY <1>3, <1>4, StartedFinite, FS_AddElement

(***************************************************************************)
(* A worker inside its loop has a phase around it.                         *)
(***************************************************************************)
LEMMA LoopIsBusy ==
  ASSUME DriverInv, NEW k \in Workers, worker[k].pc \in {"init", "loop", "exit"}
  PROVE  pc \in Busy
  BY DEF DriverInv, Stages

(***************************************************************************)
(* A record stays in the DB when it is written again or another one is.    *)
(***************************************************************************)
LEMMA DurableKept ==
  ASSUME LoadIsDurable, loaded' = loaded, DOMAIN store \subseteq DOMAIN store'
  PROVE  LoadIsDurable'
  BY DEF LoadIsDurable, LoadedNums, BuildKeyName

(***************************************************************************)
(* Main's steps but for the two that start and end a phase, the steps of   *)
(* the statistics threads and the ends of the process.                     *)
(***************************************************************************)
LEMMA DurableQuiet ==
  ASSUME KnownDurable, UNCHANGED clientVars,
         \/ QuietMainStep
         \/ StatStep \/ (\E how \in Ended : End(how)) \/ UNCHANGED vars
  PROVE  DurableInv'
  <1> USE DEF KnownDurable, DurableInv, Known
  <1>1. LoadIsDurable'
    BY DurableKept DEF clientVars
  <1>2. CASE LaunchWorker
    <2>1. futures \in Workers /\ worker[futures].pc = "none"
      BY <1>2, CommandType DEF LaunchWorker, At, DriverInv, Stages, Busy, TypeOK, Workers
    <2>2. \A k \in Workers : worker'[k].i = worker[k].i
                             /\ (worker'[k].pc = "none" => worker[k].pc = "none")
      BY <1>2, <2>1 DEF LaunchWorker, DriverInv, TypeOK
    <2>3. StartedOps' = StartedOps
      BY <2>2, StartedSame DEF clientVars
    <2>4. pc' = pc /\ phase' = phase
      BY <1>2 DEF LaunchWorker
    <2> QED BY <1>1, <2>2, <2>3, <2>4 DEF Unlaunched, OneKeyPerOp, clientVars, Workers
  <1>3. CASE EndLaunch \/ JoinWorker \/ StatStep \/ (\E how \in Ended : End(how))
             \/ UNCHANGED vars
    <2>1. UNCHANGED <<worker, phase>> /\ (pc' \in Busy => pc \in Busy)
      BY <1>3 DEF EndLaunch, JoinWorker, At, Busy, StatStep, StatGoes, End, vars
    <2>2. StartedOps' = StartedOps
      BY <2>1, StartedSame DEF clientVars
    <2> QED BY <1>1, <2>1, <2>2, SMTT(30) DEF Unlaunched, OneKeyPerOp, clientVars, Workers
  <1>4. CASE CreateBasic \/ CreateCloud \/ PrintStats \/ SetFinish \/ SetDone \/ JoinMy
             \/ JoinRocks \/ DeleteDB \/ Return
    <2>1. pc' \notin Busy
      BY <1>4 DEF CreateBasic, CreateCloud, OpenDB, Advance, PrintStats, SetFinish, SetDone,
                  JoinMy, JoinRocks, JoinStat, DeleteDB, Return, Busy
    <2> QED BY <1>1, <2>1 DEF Unlaunched, OneKeyPerOp
  <1> QED BY <1>2, <1>3, <1>4 DEF QuietMainStep

(***************************************************************************)
(* A phase starts with no operation started and no key handed out.         *)
(***************************************************************************)
LEMMA DurableStart ==
  ASSUME KnownDurable, ClientInitWorkload
  PROVE  DurableInv'
  <1> USE DEF KnownDurable, DurableInv, Known
  <1>1. LoadIsDurable'
    BY DurableKept DEF ClientInitWorkload
  <1>2. \A k \in Workers : worker'[k].i = 0 /\ op'[k].step = "idle"
    <2>1. \A k \in Workers : op[k].step = "idle"
      BY AllIdle DEF ClientInitWorkload, InitWorkload, At, Busy, DriverInv, KeysInv
    <2> QED BY <2>1 DEF ClientInitWorkload, InitWorkload, FreshWorker
  <1>3. StartedOps' = {}
    BY <1>2 DEF StartedOps, Workers
  <1>4. OneKeyPerOp'
    BY <1>3, FS_EmptySet, ClientAssumption DEF OneKeyPerOp, ClientInitWorkload
  <1> QED BY <1>1, <1>2, <1>4 DEF Unlaunched, Workers

(***************************************************************************)
(* When main has joined every future, the operations that were started are *)
(* its sum of them.                                                        *)
(***************************************************************************)
LEMMA StartedAll ==
  ASSUME DriverInv, ClientTypeOK, OpAt, Unlaunched, pc = "join", joined = futures
  PROVE  /\ Cardinality(StartedOps) = sum
         /\ \A k \in Workers : op[k].step = "idle"
  <1>1. cmd.threads \in 1..MaxThreads /\ futures = cmd.threads
    BY CommandType DEF DriverInv, TypeOK, Stages
  <1>2. NumOps(phase) \in Nat
    BY NumOpsType DEF DriverInv
  <1>3. ASSUME NEW k \in Workers
        PROVE  /\ k < cmd.threads => worker[k].pc = "returned" /\ worker[k].i = NumOps(phase)
               /\ k >= cmd.threads => worker[k].pc = "none" /\ worker[k].i = 0
    BY <1>1 DEF DriverInv, Stages, Exact, Busy, Unlaunched
  <1>4. \A k \in Workers : op[k].step = "idle"
    BY <1>1, <1>3 DEF OpAt, Workers
  <1>5. StartedOps = (0..(cmd.threads - 1)) \X (0..(NumOps(phase) - 1))
    BY <1>1, <1>2, <1>3, <1>4, DriverAssumption DEF StartedOps, Workers
  <1>6. Cardinality(StartedOps) = cmd.threads * NumOps(phase)
    <2>1. ASSUME NEW n \in Nat
          PROVE  IsFiniteSet(0..(n - 1)) /\ Cardinality(0..(n - 1)) = n
      <3>1. n - 1 \in Int /\ (0 > n - 1 => n = 0)
        OBVIOUS
      <3> QED BY <3>1, FS_Interval
    <2>2. cmd.threads \in Nat
      BY <1>1, DriverAssumption
    <2> DEFINE S == 0..(cmd.threads - 1)
               T == 0..(NumOps(phase) - 1)
    <2>3. IsFiniteSet(S) /\ Cardinality(S) = cmd.threads
      BY <2>1, <2>2
    <2>4. IsFiniteSet(T) /\ Cardinality(T) = NumOps(phase)
      BY <1>2, <2>1
    <2>5. StartedOps = S \X T
      BY <1>5
    <2> HIDE DEF S, T
    <2> QED BY <2>3, <2>4, <2>5, FS_Product
  <1>7. sum = joined * NumOps(phase)
    BY DEF DriverInv, Exact
  <1> QED BY <1>1, <1>4, <1>6, <1>7

(***************************************************************************)
(* The end of a phase: what a load reports is what it has written.         *)
(***************************************************************************)
LEMMA DurableEnd ==
  ASSUME KnownDurable, ClientEndPhase
  PROVE  DurableInv'
  <1> USE DEF KnownDurable, DurableInv, Known
  <1>1. pc = "join" /\ Running /\ joined = futures /\ store' = store /\ pc' \notin Busy
    BY DEF ClientEndPhase, EndPhase, At, Advance, Busy
  <1>2. CASE loaded' = loaded
    BY <1>1, <1>2, DurableKept DEF Unlaunched, OneKeyPerOp
  <1>3. CASE phase = "load" /\ Reaches /\ loaded' = sum
    <2>1. Cardinality(StartedOps) = sum /\ \A k \in Workers : op[k].step = "idle"
      BY <1>1, StartedAll DEF KeysInv
    <2>2. key_generator = InsertStart + sum
      BY <1>1, <1>3, <2>1 DEF OneKeyPerOp, Busy
    <2>3. wl
      BY <1>1 DEF DriverInv, Stages, Busy, TypeOK
    <2>4. \A n \in InsertStart..(InsertStart + sum - 1) : BuildKeyName(n) \in DOMAIN store
      <3>1. \A n \in InsertStart..(key_generator - 1) :
              \/ BuildKeyName(n) \in DOMAIN store
              \/ \E k \in Workers : op[k].step = "put" /\ op[k].num = n
        BY <1>1, <1>3, <2>3 DEF KeysInv, NoKeyLost
      <3>2. \A n \in InsertStart..(key_generator - 1) : BuildKeyName(n) \in DOMAIN store
        BY <2>1, <3>1
      <3>3. sum \in Nat /\ key_generator \in Nat /\ InsertStart \in Nat
        BY ClientAssumption DEF ClientTypeOK, TypeOK
      <3>4. InsertStart..(key_generator - 1) = InsertStart..(InsertStart + sum - 1)
        BY <2>2, <3>3
      <3> QED BY <3>2, <3>4, Zenon
    <2>5. LoadIsDurable'
      BY <1>1, <1>3, <2>4 DEF LoadIsDurable, LoadedNums, BuildKeyName
    <2> QED BY <1>1, <2>5 DEF Unlaunched, OneKeyPerOp
  <1> QED BY <1>2, <1>3 DEF ClientEndPhase

(***************************************************************************)
(* A worker's step: DoInsert starts an operation with the key it takes,    *)
(* the other steps of a load take none.                                    *)
(***************************************************************************)
LEMMA DurableWorker ==
  ASSUME KnownDurable, NEW k \in Workers, ClientWorkerNext(k)
  PROVE  DurableInv'
  <1> USE DEF KnownDurable, DurableInv, Known
  <1>0. CASE ExitProcess(k) /\ UNCHANGED clientVars
    <2>1. \E how \in Ended : End(how)
      BY <1>0 DEF ExitProcess, ExitStatus, Ended
    <2> QED BY <1>0, <2>1, DurableQuiet
  <1>1. CASE ~ExitProcess(k)
    <2>1. pc' = pc /\ phase' = phase /\ loaded' = loaded
      BY <1>1 DEF ClientWorkerNext, DoInsert, TransactionInsert, TransactionStart, StartOp,
                  ReadHit, ReadMiss, MissLoad, MissStore, AfterRead, Write, Scan, OpFails,
                  OpGoes, OpDone, WorkerOp, WorkerFails, WorkerInit, WorkerReturn,
                  WorkerGoes, vars, clientVars
    <2>2. DOMAIN store \subseteq DOMAIN store'
      BY <1>1 DEF ClientWorkerNext, DoInsert, TransactionInsert, TransactionStart,
                  ReadHit, ReadMiss, MissLoad, MissStore, Write, Put, Scan, OpFails, clientVars
    <2>3. LoadIsDurable'
      BY <2>1, <2>2, DurableKept
    <2>4. Unlaunched'
      <3>1. WorkerNext(k) \/ UNCHANGED vars
        BY WorkerSimulation
      <3>2. \A j \in Workers : worker'[j].pc = "none" => worker'[j] = worker[j]
        <4>1. CASE UNCHANGED vars
          BY <4>1 DEF vars
        <4>2. CASE WorkerNext(k)
          <5>1. worker[k].pc # "none"
            BY <1>1, <4>2 DEF WorkerNext, WorkerInit, WorkerOp, WorkerFails, WorkerReturn,
                              InLoop, WorkerAt
          <5>2. worker'[k].pc # "none" /\ \A j \in Workers : j # k => worker'[j] = worker[j]
            <6>1. worker[k] \in [pc : {"none", "init", "loop", "returned", "exit"},
                                 i : Nat, oks : Nat]
              BY DEF DriverInv, TypeOK
            <6>2. CASE WorkerOp(k)
              BY <5>1, <6>1, <6>2 DEF WorkerOp, WorkerGoes, DriverInv, TypeOK
            <6>3. CASE WorkerInit(k) \/ WorkerFails(k) \/ WorkerReturn(k)
              BY <6>1, <6>3 DEF WorkerInit, WorkerFails, WorkerReturn, WorkerGoes, DriverInv,
                                TypeOK
            <6> QED BY <1>1, <4>2, <6>2, <6>3 DEF WorkerNext
          <5> QED BY <5>2
        <4> QED BY <3>1, <4>1, <4>2
      <3> QED BY <2>1, <3>2 DEF Unlaunched, Workers
    <2>5. ASSUME phase = "load" PROVE OneKeyPerOp'
      <3>0. \/ DoInsert(k) \/ Write(k) \/ OpFails(k)
            \/ (WorkerInit(k) \/ WorkerReturn(k)) /\ UNCHANGED clientVars
        BY <1>1, <2>5 DEF ClientWorkerNext, TransactionInsert, TransactionStart, ReadHit,
                          ReadMiss, MissLoad, MissStore, Scan, InClient, KeysInv, LoadOps
      <3>1. CASE DoInsert(k)
        <4> DEFINE o == [step |-> "put", kind |-> "LOAD", num |-> key_generator, reg |-> 0]
        <4>1. OpGoes(k, o) /\ op[k].step = "idle" /\ key_generator' = key_generator + 1
              /\ worker[k].pc = "loop"
          BY <3>1 DEF DoInsert, InClient, InLoop, WorkerAt, StartOp
        <4>2. pc \in Busy
          BY <4>1, LoopIsBusy
        <4>3. o.step # "idle"
          OBVIOUS
        <4> HIDE DEF o
        <4>4. Cardinality(StartedOps') = Cardinality(StartedOps) + 1
          BY <4>1, <4>2, <4>3, StartedOne DEF KeysInv
        <4>5. Cardinality(StartedOps) \in Nat
          BY <4>2, StartedFinite DEF KeysInv
        <4> QED BY <2>1, <4>1, <4>2, <4>4, <4>5, ClientAssumption DEF OneKeyPerOp
      <3>2. CASE Write(k)
        <4>1. OpDone(k) /\ op[k].step = "put" /\ key_generator' = key_generator
          BY <3>2 DEF Write, InClient
        <4>2. StartedOps' = StartedOps
          <5>1. /\ op'[k].step = "idle" /\ worker[k].i \in Nat /\ worker'[k].i = worker[k].i + 1
                /\ \A j \in Workers : j # k => worker'[j] = worker[j] /\ op'[j] = op[j]
            BY <4>1 DEF OpDone, WorkerOp, WorkerGoes, Idle, DriverInv, TypeOK, ClientTypeOK
          <5> QED BY <4>1, <5>1, StartedSame
        <4> QED BY <2>1, <4>1, <4>2 DEF OneKeyPerOp
      <3>3. CASE OpFails(k) \/ ((WorkerInit(k) \/ WorkerReturn(k)) /\ UNCHANGED clientVars)
        <4>1. UNCHANGED clientVars /\ (WorkerFails(k) \/ WorkerInit(k) \/ WorkerReturn(k))
          BY <3>3 DEF OpFails
        <4>2. \A j \in Workers : worker'[j].i = worker[j].i
          BY <4>1 DEF WorkerFails, WorkerInit, WorkerReturn, WorkerGoes, DriverInv, TypeOK
        <4>3. StartedOps' = StartedOps
          BY <4>1, <4>2, StartedSame DEF clientVars
        <4>4. key_generator' = key_generator
          BY <4>1 DEF clientVars
        <4> QED BY <2>1, <4>3, <4>4 DEF OneKeyPerOp
      <3> QED BY <3>0, <3>1, <3>2, <3>3
    <2>6. OneKeyPerOp'
      BY <2>1, <2>5 DEF OneKeyPerOp
    <2> QED BY <2>3, <2>4, <2>6
  <1>2. ASSUME ExitProcess(k) PROVE UNCHANGED clientVars
    BY <1>2 DEF ClientWorkerNext, ExitProcess, WorkerAt, DoInsert, TransactionInsert,
                TransactionStart, ReadHit, ReadMiss, MissLoad, MissStore, Write, Scan,
                OpFails, InClient, InLoop
  <1> QED BY <1>0, <1>1, <1>2

(***************************************************************************)
(* The invariant behind LoadIsDurable.                                     *)
(***************************************************************************)
LEMMA DurableInvariant ==
  ClientSpec => [](DriverInv /\ ClientTypeOK /\ KeysInv /\ DurableInv)
  <1>1. ClientInit => DurableInv
    BY ClientAssumption DEF ClientInit, Init, DurableInv, Unlaunched, OneKeyPerOp,
                            LoadIsDurable, LoadedNums, Busy
  <1>2. /\ DriverInv /\ ClientTypeOK /\ KeysInv /\ DurableInv
        /\ (DriverInv /\ ClientTypeOK /\ KeysInv)' /\ [ClientNext]_allVars
        => DurableInv'
    <2> SUFFICES ASSUME KnownDurable, [ClientNext]_allVars PROVE DurableInv'
      BY DEF KnownDurable, Known
    <2>1. CASE ClientRestart
      BY <2>1, DurableKept DEF ClientRestart, Restart, Busy, KnownDurable, DurableInv,
                               Unlaunched, OneKeyPerOp
    <2> QED BY <2>1, ClientSteps, DurableWorker, DurableStart, DurableEnd, DurableQuiet
  <1> QED BY <1>1, <1>2, KeysInvariant, PTL DEF ClientSpec

(***************************************************************************)
(* The records a completed load reported are in the DB ever after, for     *)
(* every number of threads and records, and through every crash.           *)
(***************************************************************************)
THEOREM CompletedLoadIsDurable == ClientSpec => []LoadIsDurable
  BY DurableInvariant, PTL DEF DurableInv

-----------------------------------------------------------------------------
(* What reads find, and what is counted of it *)

\* The workers that found nothing and have not counted it yet.
Missers == {k \in Workers : op[k].step \in {"miss", "count"}}

\* Only reads read.
ReadOps ==
  \A k \in Workers : op[k].step \in {"get", "miss", "count"} => op[k].kind \in {"READ", "RMW"}

(***************************************************************************)
(* Every miss is counted at most once, although the counter is read and    *)
(* written in two steps: what noResult says, and what a worker is about to *)
(* make of it, leaves room for every worker that still has to count.       *)
(***************************************************************************)
MissesCounted ==
  /\ noResult + Cardinality(Missers) <= misses
  /\ \A k \in Workers : op[k].step = "count" => op[k].reg + Cardinality(Missers) <= misses
  /\ misses > 0 => noResult > 0 \/ Missers # {}

MissInv == ReadOps /\ MissesCounted

(***************************************************************************)
(* What an operation's step does to the operations.                        *)
(***************************************************************************)
LEMMA OpChange ==
  ASSUME ClientTypeOK, NEW k \in Workers
  PROVE  /\ \A o : OpGoes(k, o) =>
                 op'[k] = o /\ \A j \in Workers : j # k => op'[j] = op[j]
         /\ OpDone(k) =>
                 op'[k].step = "idle" /\ \A j \in Workers : j # k => op'[j] = op[j]
         /\ AfterRead(k) =>
                 /\ op'[k].step \in {"idle", "put"}
                 /\ op'[k].step = "put" => op'[k].kind = op[k].kind /\ op'[k].num = op[k].num
                 /\ \A j \in Workers : j # k => op'[j] = op[j]
  <1>1. ASSUME NEW o, OpGoes(k, o)
        PROVE  op'[k] = o /\ \A j \in Workers : j # k => op'[j] = op[j]
    BY <1>1 DEF ClientTypeOK, OpGoes
  <1>2. ASSUME OpDone(k)
        PROVE  op'[k].step = "idle" /\ \A j \in Workers : j # k => op'[j] = op[j]
    BY <1>2 DEF ClientTypeOK, OpDone, Idle
  <1>3. ASSUME AfterRead(k), op[k].kind = "RMW"
        PROVE  /\ op'[k].step = "put" /\ op'[k].kind = op[k].kind /\ op'[k].num = op[k].num
               /\ \A j \in Workers : j # k => op'[j] = op[j]
    <2>1. op'[k] = [op[k] EXCEPT !.step = "put"] /\ \A j \in Workers : j # k => op'[j] = op[j]
      BY <1>1, <1>3 DEF AfterRead
    <2> QED BY <2>1 DEF ClientTypeOK
  <1> QED BY <1>1, <1>2, <1>3 DEF AfterRead

(***************************************************************************)
(* The workers are finitely many, and so are those that found nothing.     *)
(***************************************************************************)
LEMMA MissersFinite ==
  IsFiniteSet(Missers) /\ Cardinality(Missers) \in Nat /\ IsFiniteSet(Workers)
  <1>1. IsFiniteSet(Workers)
    BY FS_Interval, DriverAssumption DEF Workers
  <1>2. Missers \subseteq Workers
    BY DEF Missers
  <1> QED BY <1>1, <1>2, FS_Subset, FS_CardinalityType

(***************************************************************************)
(* A step that neither finds nor counts a miss.                            *)
(***************************************************************************)
LEMMA MissKept ==
  ASSUME MissInv, UNCHANGED <<noResult, misses>>,
         \A k \in Workers :
           \/ op'[k] = op[k]
           \/ /\ op[k].step \notin {"miss", "count"} /\ op'[k].step \notin {"miss", "count"}
              /\ op'[k].step = "get" => op'[k].kind \in {"READ", "RMW"}
  PROVE  MissInv'
  <1>1. Missers' = Missers
    BY DEF Missers, Workers
  <1>2. ReadOps'
    BY DEF MissInv, ReadOps, Workers
  <1>3. MissesCounted'
    BY <1>1 DEF MissInv, MissesCounted, Workers
  <1> QED BY <1>2, <1>3 DEF MissInv

(***************************************************************************)
(* The steps of a worker.                                                  *)
(***************************************************************************)
LEMMA MissWorker ==
  ASSUME ClientTypeOK, MissInv, NEW k \in Workers, ClientWorkerNext(k)
  PROVE  MissInv'
  <1> USE DEF InClient
  <1>1. CASE DoInsert(k)
    <2>1. op[k].step = "idle" /\ op'[k].step = "put" /\ \A j \in Workers : j # k => op'[j] = op[j]
      BY <1>1, OpChange DEF DoInsert, StartOp
    <2> QED BY <1>1, <2>1, MissKept DEF DoInsert
  <1>2. CASE TransactionInsert(k)
    <2>1. op[k].step = "idle" /\ op'[k].step = "put" /\ \A j \in Workers : j # k => op'[j] = op[j]
      BY <1>2, OpChange DEF TransactionInsert, StartOp
    <2> QED BY <1>2, <2>1, MissKept DEF TransactionInsert
  <1>3. ASSUME NEW kind \in DOMAIN FirstStep, TransactionStart(k, kind) PROVE MissInv'
    <2>1. /\ op[k].step = "idle" /\ op'[k].step = FirstStep[kind] /\ op'[k].kind = kind
          /\ \A j \in Workers : j # k => op'[j] = op[j]
      BY <1>3, OpChange DEF TransactionStart, StartOp
    <2>2. /\ FirstStep[kind] \in {"get", "put", "scan"}
          /\ FirstStep[kind] = "get" => kind \in {"READ", "RMW"}
      BY DEF FirstStep
    <2> QED BY <1>3, <2>1, <2>2, MissKept DEF TransactionStart
  <1>4. CASE ReadHit(k)
    <2>1. /\ op[k].step = "get" /\ op'[k].step \in {"idle", "put"}
          /\ \A j \in Workers : j # k => op'[j] = op[j]
      BY <1>4, OpChange DEF ReadHit
    <2> QED BY <1>4, <2>1, MissKept DEF ReadHit
  <1>5. CASE Write(k) \/ Scan(k)
    <2>1. /\ op[k].step \in {"put", "scan"} /\ op'[k].step = "idle"
          /\ \A j \in Workers : j # k => op'[j] = op[j]
      BY <1>5, OpChange DEF Write, Scan
    <2> QED BY <1>5, <2>1, MissKept DEF Write, Scan
  <1>6. CASE UNCHANGED clientVars
    BY <1>6, MissKept DEF clientVars
  <1>7. CASE ReadMiss(k)
    <2>1. op'[k] = [op[k] EXCEPT !.step = "miss"] /\ \A j \in Workers : j # k => op'[j] = op[j]
      BY <1>7, OpChange DEF ReadMiss
    <2>2. op[k].step = "get" /\ op'[k].step = "miss" /\ op'[k].kind = op[k].kind
      BY <1>7, <2>1 DEF ReadMiss, ClientTypeOK
    <2>3. ReadOps'
      BY <2>1, <2>2 DEF MissInv, ReadOps, Workers
    <2>4. Missers' = Missers \cup {k} /\ k \notin Missers
      BY <2>1, <2>2 DEF Missers, Workers
    <2>5. Cardinality(Missers') = Cardinality(Missers) + 1
      BY <2>4, MissersFinite, FS_AddElement
    <2>6. misses' = misses + 1 /\ noResult' = noResult
      BY <1>7 DEF ReadMiss
    <2>7. Missers' # {}
      BY <2>4
    <2>8. \A j \in Workers : op'[j].step = "count" => op[j].step = "count" /\ op'[j] = op[j]
      BY <2>1, <2>2
    <2>9. \A j \in Workers : op[j].reg \in Nat
      BY DEF ClientTypeOK
    <2>10. MissesCounted'
      BY <2>5, <2>6, <2>7, <2>8, <2>9, MissersFinite
         DEF MissInv, MissesCounted, ClientTypeOK, Workers
    <2> QED BY <2>3, <2>10 DEF MissInv
  <1>8. CASE MissLoad(k)
    <2>1. /\ op'[k] = [op[k] EXCEPT !.step = "count", !.reg = noResult]
          /\ \A j \in Workers : j # k => op'[j] = op[j]
      BY <1>8, OpChange DEF MissLoad
    <2>2. /\ op[k].step = "miss" /\ op'[k].step = "count" /\ op'[k].kind = op[k].kind
          /\ op'[k].reg = noResult
      BY <1>8, <2>1 DEF MissLoad, ClientTypeOK
    <2>3. ReadOps'
      BY <2>1, <2>2 DEF MissInv, ReadOps, Workers
    <2>4. Missers' = Missers
      BY <2>1, <2>2 DEF Missers, Workers
    <2>5. UNCHANGED <<misses, noResult>>
      BY <1>8 DEF MissLoad
    <2>6. MissesCounted'
      BY <2>1, <2>2, <2>4, <2>5 DEF MissInv, MissesCounted, Workers
    <2> QED BY <2>3, <2>6 DEF MissInv
  <1>9. CASE MissStore(k)
    <2>1. /\ op'[k].step \in {"idle", "put"} /\ op[k].step = "count"
          /\ \A j \in Workers : j # k => op'[j] = op[j]
      BY <1>9, OpChange DEF MissStore
    <2>2. ReadOps'
      BY <2>1 DEF MissInv, ReadOps, Workers
    <2>3. Missers' = Missers \ {k} /\ k \in Missers
      BY <2>1 DEF Missers, Workers
    <2>4. Cardinality(Missers') = Cardinality(Missers) - 1
      BY <2>3, MissersFinite, FS_RemoveElement
    <2>5. misses' = misses /\ noResult' = op[k].reg + 1
      BY <1>9 DEF MissStore
    <2>6. \A j \in Workers : op'[j].step = "count" => op[j].step = "count" /\ op'[j] = op[j]
      BY <2>1
    <2>7. \A j \in Workers : op[j].reg \in Nat
      BY DEF ClientTypeOK
    <2>8. MissesCounted'
      BY <2>1, <2>4, <2>5, <2>6, <2>7, MissersFinite, SMTT(30)
         DEF MissInv, MissesCounted, ClientTypeOK, Workers
    <2> QED BY <2>2, <2>8 DEF MissInv
  <1> QED BY <1>1, <1>2, <1>3, <1>4, <1>5, <1>6, <1>7, <1>8, <1>9 DEF ClientWorkerNext, OpFails

(***************************************************************************)
(* The invariant behind NotFoundBounds.                                    *)
(***************************************************************************)
LEMMA MissInvariant == ClientSpec => []MissInv
  <1>1. ASSUME noResult = 0, misses = 0, \A k \in Workers : op[k].step = "idle"
        PROVE  MissInv
    <2>1. Missers = {}
      BY <1>1 DEF Missers
    <2> QED BY <1>1, <2>1, FS_EmptySet DEF MissInv, ReadOps, MissesCounted
  <1>2. ClientInit => MissInv
    BY <1>1 DEF ClientInit, Idle
  <1>3. ClientTypeOK /\ MissInv /\ [ClientNext]_allVars => MissInv'
    <2> SUFFICES ASSUME ClientTypeOK, MissInv, [ClientNext]_allVars PROVE MissInv'
      OBVIOUS
    <2>1. CASE ClientRestart
      <3>1. noResult' = 0 /\ misses' = 0 /\ \A k \in Workers : op'[k].step = "idle"
        BY <2>1 DEF ClientRestart, Idle
      <3>2. Missers' = {}
        BY <3>1 DEF Missers, Workers
      <3> QED BY <3>1, <3>2, FS_EmptySet DEF MissInv, ReadOps, MissesCounted, Workers
    <2>2. CASE ClientInitWorkload \/ ClientEndPhase
      BY <2>2, MissKept DEF ClientInitWorkload, ClientEndPhase
    <2>3. CASE UNCHANGED clientVars
      BY <2>3, MissKept DEF clientVars
    <2> QED BY <2>1, <2>2, <2>3, ClientSteps, MissWorker
  <1> QED BY <1>2, <1>3, ClientTypeCorrect, PTL DEF ClientSpec

(***************************************************************************)
(* "read not found" is at most the misses, and not zero when there were    *)
(* any, for every number of readers that race on the counter.              *)
(***************************************************************************)
THEOREM NotFoundIsBounded == ClientSpec => []NotFoundBounds
  <1>1. ClientTypeOK /\ OpAt /\ MissInv => NotFoundBounds
    <2> SUFFICES ASSUME ClientTypeOK, OpAt, MissInv PROVE NotFoundBounds
      OBVIOUS
    <2>1. noResult <= misses
      BY MissersFinite DEF MissInv, MissesCounted, ClientTypeOK
    <2>2. WorkDone => Missers = {}
      BY DEF WorkDone, OpAt, Missers
    <2> QED BY <2>1, <2>2 DEF NotFoundBounds, MissInv, MissesCounted
  <1> QED BY <1>1, KeysInvariant, MissInvariant, PTL DEF KeysInv

(***************************************************************************)
(* A read never misses a record that a completed load reported.            *)
(***************************************************************************)
THEOREM LoadedIsNeverMissed == ClientSpec => LoadedNeverMissed
  <1>1. ASSUME ClientTypeOK, MissInv, LoadIsDurable, [ClientNext]_allVars,
               NEW k \in Workers, op[k].step = "get", op'[k].step = "miss"
        PROVE  op[k].num \notin LoadedNums(loaded)
    <2>1. ReadMiss(k)
      <3>1. PICK j \in Workers : ClientWorkerNext(j)
        BY <1>1, ClientSteps DEF ClientInitWorkload, ClientEndPhase, ClientRestart, Idle,
                                 clientVars
      <3>2. CASE j # k
        BY <1>1, <3>1, <3>2, OpChange
           DEF ClientWorkerNext, DoInsert, TransactionInsert, TransactionStart, StartOp,
               ReadHit, ReadMiss, MissLoad, MissStore, Write, Scan, OpFails, clientVars
      <3>3. CASE j = k
        BY <1>1, <3>1, <3>3, OpChange
           DEF ClientWorkerNext, DoInsert, TransactionInsert, TransactionStart, InClient,
               ReadHit, MissLoad, MissStore, Write, Scan, OpFails, clientVars
      <3> QED BY <3>2, <3>3
    <2>2. NameOf(op[k]) \notin DOMAIN store
      BY <2>1 DEF ReadMiss, Present
    <2>3. NameOf(op[k]) = BuildKeyName(op[k].num)
      BY <1>1 DEF MissInv, ReadOps, NameOf
    <2> QED BY <1>1, <2>2, <2>3 DEF LoadIsDurable
  <1>2. ClientTypeOK /\ MissInv /\ LoadIsDurable /\ [ClientNext]_allVars =>
          [\A k \in Workers : op[k].step = "get" /\ op'[k].step = "miss" =>
             op[k].num \notin LoadedNums(loaded)]_allVars
    BY <1>1
  <1> QED BY <1>2, ClientTypeCorrect, MissInvariant, CompletedLoadIsDurable, PTL
          DEF ClientSpec, LoadedNeverMissed

-----------------------------------------------------------------------------
(* A transaction's insert creates a record *)

\* The names the insert counter hands out in one process, and the key numbers
\* that a load or another transaction can use.
InsertNames == UniformInsertStart..(UniformInsertStart + OperationCount - 1)
OtherNums   == 0..(InsertStart + RecordCount - 1)

(***************************************************************************)
(* No other key has the name of an inserted one.  It holds of ordered keys *)
(* when insertstart + recordcount is at most 1000000, and of hashed ones   *)
(* when no hash falls on the few names of InsertNames; the code checks     *)
(* neither, so it is a hypothesis here.                                    *)
(***************************************************************************)
NamesApart == \A n \in OtherNums : BuildKeyName(n) \notin InsertNames

\* Main launches no worker beyond the threads of its command line.
Launched == pc \in Busy => futures <= cmd.threads

\* The counter has handed out at most one name per transaction of the run.
CounterInv ==
  /\ UniformInsertStart <= uniform_insert_counter
  /\ uniform_insert_counter <= UniformInsertStart + OperationCount
  /\ phase # "run" \/ pc = "init" => uniform_insert_counter = UniformInsertStart
  /\ phase = "run" /\ pc \in Busy =>
       uniform_insert_counter <= UniformInsertStart + Cardinality(StartedOps)

\* Where the number of an operation that reads or writes comes from.
NumOK(o) ==
  IF o.kind = "INSERT" THEN o.num \in UniformInsertStart..(uniform_insert_counter - 1)
                       ELSE o.num \in OtherNums

\* A name the counter handed out is one worker's, who has not written it yet, or
\* is in the DB.
NamesInv ==
  /\ \A k \in Workers : op[k].step \notin {"idle", "scan"} => NumOK(op[k])
  /\ \A j, k \in Workers : j # k /\ Inserting(j) /\ Inserting(k) => op[j].num # op[k].num
  /\ \A n \in DOMAIN store : n \in InsertNames =>
       n < uniform_insert_counter /\ \A k \in Workers : Inserting(k) => op[k].num # n

InsertInv == Launched /\ (lives = 1 => CounterInv /\ NamesInv)

\* What the proofs of the steps start from.
KnownInsert ==
  /\ DriverInv /\ ClientTypeOK /\ KeysInv /\ DurableInv /\ MissInv /\ InsertInv

(***************************************************************************)
(* A worker that may start an operation has not used up the phase's total. *)
(***************************************************************************)
LEMMA RoomForOne ==
  ASSUME KnownInsert, NEW k \in Workers, InLoop(k), op[k].step = "idle"
  PROVE  /\ pc \in Busy
         /\ Cardinality(StartedOps) \in Nat
         /\ Cardinality(StartedOps) + 1 <= Total(phase)
  <1> USE DEF KnownInsert, KeysInv, DurableInv, InsertInv
  <1>1. pc \in Busy
    BY LoopIsBusy DEF InLoop, WorkerAt
  <1>2. cmd.threads \in 1..MaxThreads /\ cmd.threads \in Nat \ {0} /\ futures <= cmd.threads
        /\ futures \in Nat
    BY <1>1, CommandType DEF DriverInv, TypeOK, Launched
  <1>3. NumOps(phase) \in Nat
    BY NumOpsType DEF DriverInv
  <1> DEFINE S == 0..(cmd.threads - 1)
             T == 0..(NumOps(phase) - 1)
             A == StartedOps \cup {<<k, worker[k].i>>}
  <1>4. \A j \in Workers : worker[j].pc # "none" => j \in S
    BY <1>1, <1>2 DEF DriverInv, Stages, Workers
  <1>5. A \subseteq S \X T
    <2>1. ASSUME NEW j \in Workers, NEW i \in Nat, <<j, i>> \in StartedOps
          PROVE  j \in S /\ i \in T
      <3>1. i \in T
        BY <1>1, <2>1, StartedFinite
      <3>2. CASE worker[j].pc = "none"
        BY <1>1, <2>1, <3>2 DEF Unlaunched, OpAt, StartedOps
      <3> QED BY <1>4, <3>1, <3>2
    <2>2. k \in S /\ worker[k].i \in T
      BY <1>3, <1>4 DEF InLoop, WorkerAt, DriverInv, TypeOK
    <2>3. StartedOps \subseteq Workers \X Nat
      BY DEF StartedOps
    <2> HIDE DEF S, T
    <2> QED BY <2>1, <2>2, <2>3
  <1>6. IsFiniteSet(StartedOps) /\ Cardinality(StartedOps) \in Nat
    BY <1>1, StartedFinite
  <1>7. Cardinality(A) = Cardinality(StartedOps) + 1
    <2>1. <<k, worker[k].i>> \notin StartedOps
      BY DEF StartedOps, DriverInv, TypeOK
    <2> QED BY <1>6, <2>1, FS_AddElement
  <1>8. IsFiniteSet(S \X T) /\ Cardinality(S \X T) = cmd.threads * NumOps(phase)
    <2>1. ASSUME NEW n \in Nat
          PROVE  IsFiniteSet(0..(n - 1)) /\ Cardinality(0..(n - 1)) = n
      <3>1. n - 1 \in Int /\ (0 > n - 1 => n = 0)
        OBVIOUS
      <3> QED BY <3>1, FS_Interval
    <2>2. IsFiniteSet(S) /\ Cardinality(S) = cmd.threads
      BY <1>2, <2>1
    <2>3. IsFiniteSet(T) /\ Cardinality(T) = NumOps(phase)
      BY <1>3, <2>1
    <2> HIDE DEF S, T
    <2> QED BY <2>2, <2>3, FS_Product
  <1>9. Cardinality(A) <= cmd.threads * NumOps(phase)
    <2> HIDE DEF A, S, T
    <2> QED BY <1>5, <1>8, FS_Subset
  <1>10. cmd.threads * NumOps(phase) <= Total(phase) /\ cmd.threads * NumOps(phase) \in Nat
    <2>1. Total(phase) \in Nat /\ NumOps(phase) = Total(phase) \div cmd.threads
      BY DriverAssumption DEF NumOps, Total
    <2>2. Total(phase) - cmd.threads * (Total(phase) \div cmd.threads) \in 0..(cmd.threads - 1)
      BY <1>2, <2>1, Remainder
    <2> QED BY <1>2, <1>3, <2>1, <2>2
  <1>11. Total(phase) \in Nat
    BY DriverAssumption DEF Total
  <1> HIDE DEF A, S, T
  <1> QED BY <1>1, <1>6, <1>7, <1>9, <1>10, <1>11

(***************************************************************************)
(* A worker's step either starts an operation or leaves the operations     *)
(* that were started as they are.                                          *)
(***************************************************************************)
LEMMA StartedWorker ==
  ASSUME KnownInsert, NEW k \in Workers, ClientWorkerNext(k)
  PROVE  \/ /\ InLoop(k) /\ op[k].step = "idle"
            /\ Cardinality(StartedOps') = Cardinality(StartedOps) + 1
         \/ StartedOps' = StartedOps /\ uniform_insert_counter' = uniform_insert_counter
  <1> USE DEF KnownInsert, KeysInv, InClient
  <1>1. ASSUME NEW o, InLoop(k), op[k].step = "idle", OpGoes(k, o), o.step # "idle"
        PROVE  Cardinality(StartedOps') = Cardinality(StartedOps) + 1
    <2>1. pc \in Busy
      BY <1>1, LoopIsBusy DEF InLoop, WorkerAt
    <2> QED BY <1>1, <2>1, StartedOne
  <1>2. CASE DoInsert(k) \/ TransactionInsert(k)
    <2>1. PICK o : OpGoes(k, o) /\ o.step = "put"
      BY <1>2 DEF DoInsert, TransactionInsert, StartOp
    <2> QED BY <1>1, <1>2, <2>1 DEF DoInsert, TransactionInsert
  <1>3. ASSUME NEW kind \in DOMAIN FirstStep, TransactionStart(k, kind)
        PROVE  /\ InLoop(k) /\ op[k].step = "idle"
               /\ Cardinality(StartedOps') = Cardinality(StartedOps) + 1
    <2>1. PICK o : OpGoes(k, o) /\ o.step = FirstStep[kind]
      BY <1>3 DEF TransactionStart, StartOp
    <2>2. FirstStep[kind] # "idle"
      BY DEF FirstStep
    <2> QED BY <1>1, <1>3, <2>1, <2>2 DEF TransactionStart
  <1>4. ASSUME op[k].step # "idle", OpDone(k)
        PROVE  StartedOps' = StartedOps
    <2>1. /\ op'[k].step = "idle" /\ worker[k].i \in Nat /\ worker'[k].i = worker[k].i + 1
          /\ \A j \in Workers : j # k => worker'[j] = worker[j] /\ op'[j] = op[j]
      BY <1>4 DEF OpDone, WorkerOp, WorkerGoes, Idle, DriverInv, TypeOK, ClientTypeOK
    <2> QED BY <1>4, <2>1, StartedSame
  <1>5. ASSUME op[k].step # "idle", NEW o, OpGoes(k, o), o.step # "idle"
        PROVE  StartedOps' = StartedOps
    <2>1. worker' = worker /\ op'[k] = o /\ \A j \in Workers : j # k => op'[j] = op[j]
      BY <1>5, OpChange DEF OpGoes, vars
    <2> QED BY <1>5, <2>1, StartedSame
  <1>6. ASSUME op[k].step # "idle", AfterRead(k)
        PROVE  StartedOps' = StartedOps
    <2>1. [op[k] EXCEPT !.step = "put"].step = "put"
      BY DEF ClientTypeOK
    <2> QED BY <1>4, <1>5, <1>6, <2>1 DEF AfterRead
  <1>7. CASE ReadHit(k) \/ MissStore(k)
    BY <1>6, <1>7 DEF ReadHit, MissStore
  <1>8. CASE ReadMiss(k)
    <2>1. [op[k] EXCEPT !.step = "miss"].step = "miss"
      BY DEF ClientTypeOK
    <2> QED BY <1>5, <1>8, <2>1 DEF ReadMiss
  <1>9. CASE MissLoad(k)
    <2>1. [op[k] EXCEPT !.step = "count", !.reg = noResult].step = "count"
      BY DEF ClientTypeOK
    <2> QED BY <1>5, <1>9, <2>1 DEF MissLoad
  <1>10. CASE Write(k) \/ Scan(k)
    BY <1>4, <1>10 DEF Write, Scan
  <1>11. ASSUME UNCHANGED clientVars,
                WorkerFails(k) \/ WorkerInit(k) \/ WorkerReturn(k) \/ ExitProcess(k)
         PROVE  StartedOps' = StartedOps /\ uniform_insert_counter' = uniform_insert_counter
    <2>1. \A j \in Workers : worker'[j].i = worker[j].i
      BY <1>11 DEF WorkerFails, WorkerInit, WorkerReturn, WorkerGoes, ExitProcess, End,
                   DriverInv, TypeOK
    <2> QED BY <1>11, <2>1, StartedSame DEF clientVars
  <1> QED BY <1>2, <1>3, <1>7, <1>8, <1>9, <1>10, <1>11 DEF ClientWorkerNext, OpFails

(***************************************************************************)
(* Names stay apart when operations end, read, or get a number that is not *)
(* an insert's.                                                            *)
(***************************************************************************)
LEMMA NamesKept ==
  ASSUME NamesInv, UNCHANGED <<uniform_insert_counter, store>>,
         \A k \in Workers :
           \/ op'[k] = op[k]
           \/ op'[k].step \in {"idle", "scan"}
           \/ op'[k].kind # "INSERT" /\ op'[k].num \in OtherNums
  PROVE  NamesInv'
  <1>1. \A k \in Workers : Inserting(k)' => Inserting(k) /\ op'[k] = op[k]
    BY DEF Inserting, Workers
  <1>2. \A k \in Workers : op'[k].step \notin {"idle", "scan"} => NumOK(op[k])'
    BY DEF NamesInv, NumOK, OtherNums
  <1> QED BY <1>1, <1>2 DEF NamesInv, Workers, InsertNames

(***************************************************************************)
(* The steps of a worker keep the names apart: an insert takes a name that *)
(* was never handed out, and only inserts write such names.                *)
(***************************************************************************)
LEMMA NamesWorker ==
  ASSUME NamesApart, KnownInsert, CounterInv, NamesInv, NEW k \in Workers, ClientWorkerNext(k)
  PROVE  NamesInv'
  <1> USE DEF KnownInsert, InClient
  <1>0. UniformInsertStart \in Nat /\ OperationCount \in Nat /\ uniform_insert_counter \in Nat
        /\ InsertStart \in Nat /\ RecordCount \in Nat
    BY ClientAssumption, DriverAssumption DEF ClientTypeOK
  <1>1. CASE DoInsert(k)
    <2>1. /\ op[k].step = "idle" /\ InLoop(k) /\ phase = "load"
          /\ op'[k] = [step |-> "put", kind |-> "LOAD", num |-> key_generator, reg |-> 0]
          /\ \A j \in Workers : j # k => op'[j] = op[j]
      BY <1>1, OpChange DEF DoInsert, StartOp
    <2>2. key_generator \in OtherNums
      <3>1. pc \in Busy /\ Cardinality(StartedOps) \in Nat
            /\ Cardinality(StartedOps) + 1 <= RecordCount
        BY <2>1, RoomForOne DEF Total
      <3>2. key_generator = InsertStart + Cardinality(StartedOps)
        BY <2>1, <3>1 DEF DurableInv, OneKeyPerOp
      <3> QED BY <1>0, <3>1, <3>2 DEF OtherNums
    <2>3. op'[k].kind # "INSERT" /\ op'[k].num \in OtherNums
      BY <2>1, <2>2
    <2> QED BY <1>1, <2>1, <2>3, NamesKept DEF DoInsert
  <1>2. ASSUME NEW kind \in DOMAIN FirstStep, TransactionStart(k, kind) PROVE NamesInv'
    <2>1. PICK n \in NextTransactionKey : StartOp(k, kind, FirstStep[kind], n)
      BY <1>2 DEF TransactionStart
    <2>2. /\ op'[k].kind = kind /\ op'[k].num = n
          /\ \A j \in Workers : j # k => op'[j] = op[j]
      BY <2>1, OpChange DEF StartOp
    <2>3. kind # "INSERT"
      BY DEF FirstStep
    <2>4. n \in OtherNums
      BY <1>0, ClientAssumption DEF NextTransactionKey, KeyNums, LastInserted, OtherNums
    <2> QED BY <1>2, <2>2, <2>3, <2>4, NamesKept DEF TransactionStart
  <1>3. ASSUME op[k].step \in {"get", "miss", "count"}
        PROVE  op[k].kind # "INSERT" /\ op[k].num \in OtherNums
    <2>1. op[k].kind # "INSERT"
      BY <1>3 DEF MissInv, ReadOps
    <2> QED BY <1>3, <2>1 DEF NamesInv, NumOK
  <1>4. CASE ReadHit(k) \/ MissStore(k)
    <2>1. op[k].step \in {"get", "miss", "count"} /\ AfterRead(k)
      BY <1>4 DEF ReadHit, MissStore
    <2>2. /\ op'[k].step \in {"idle", "put"}
          /\ op'[k].step = "put" => op'[k].kind = op[k].kind /\ op'[k].num = op[k].num
          /\ \A j \in Workers : j # k => op'[j] = op[j]
      BY <2>1, OpChange
    <2> QED BY <1>3, <1>4, <2>1, <2>2, NamesKept DEF ReadHit, MissStore
  <1>5. CASE ReadMiss(k)
    <2>1. op'[k] = [op[k] EXCEPT !.step = "miss"] /\ \A j \in Workers : j # k => op'[j] = op[j]
      BY <1>5, OpChange DEF ReadMiss
    <2>2. op'[k].kind = op[k].kind /\ op'[k].num = op[k].num /\ op[k].step = "get"
      BY <1>5, <2>1 DEF ReadMiss, ClientTypeOK
    <2> QED BY <1>3, <1>5, <2>1, <2>2, NamesKept DEF ReadMiss
  <1>6. CASE MissLoad(k)
    <2>1. /\ op'[k] = [op[k] EXCEPT !.step = "count", !.reg = noResult]
          /\ \A j \in Workers : j # k => op'[j] = op[j]
      BY <1>6, OpChange DEF MissLoad
    <2>2. op'[k].kind = op[k].kind /\ op'[k].num = op[k].num /\ op[k].step = "miss"
      BY <1>6, <2>1 DEF MissLoad, ClientTypeOK
    <2> QED BY <1>3, <1>6, <2>1, <2>2, NamesKept DEF MissLoad
  <1>7. CASE Scan(k)
    <2>1. op'[k].step = "idle" /\ \A j \in Workers : j # k => op'[j] = op[j]
      BY <1>7, OpChange DEF Scan
    <2> QED BY <1>7, <2>1, NamesKept DEF Scan
  <1>8. CASE UNCHANGED clientVars
    BY <1>8, NamesKept DEF clientVars
  <1>9. CASE TransactionInsert(k)
    <2>1. /\ op'[k] = [step |-> "put", kind |-> "INSERT", num |-> uniform_insert_counter, reg |-> 0]
          /\ \A j \in Workers : j # k => op'[j] = op[j]
      BY <1>9, OpChange DEF TransactionInsert, StartOp
    <2>2. uniform_insert_counter' = uniform_insert_counter + 1 /\ store' = store
      BY <1>9 DEF TransactionInsert
    <2>3. \A j \in Workers : op'[j].step \notin {"idle", "scan"} => NumOK(op[j])'
      <3>1. NumOK(op[k])'
        BY <1>0, <2>1, <2>2 DEF NumOK, CounterInv
      <3>2. ASSUME NEW j \in Workers, j # k, op[j].step \notin {"idle", "scan"}
            PROVE  NumOK(op[j])'
        BY <1>0, <2>1, <2>2, <3>2 DEF NumOK, NamesInv, OtherNums
      <3> QED BY <2>1, <3>1, <3>2
    <2>4. \A j \in Workers : Inserting(j) => op[j].num < uniform_insert_counter
      BY <1>0 DEF NamesInv, NumOK, Inserting
    <2>5. /\ op'[k].num = uniform_insert_counter
          /\ \A j \in Workers : j # k => (Inserting(j)' <=> Inserting(j)) /\ op'[j].num = op[j].num
      BY <2>1 DEF Inserting
    <2>6. \A j \in Workers : Inserting(j) => op[j].num \in Nat
      BY DEF ClientTypeOK
    <2>7. \A i, j \in Workers : i # j /\ Inserting(i)' /\ Inserting(j)' => op'[i].num # op'[j].num
      BY <1>0, <2>4, <2>5, <2>6 DEF NamesInv
    <2>8. ASSUME NEW n \in DOMAIN store, n \in InsertNames
          PROVE  /\ n < uniform_insert_counter + 1
                 /\ \A j \in Workers : Inserting(j)' => op'[j].num # n
      <3>1. n < uniform_insert_counter /\ n \in Nat
        BY <1>0, <2>8 DEF NamesInv, InsertNames
      <3>2. \A j \in Workers : Inserting(j) => op[j].num # n
        BY <2>8 DEF NamesInv
      <3> QED BY <1>0, <2>5, <3>1, <3>2
    <2> QED BY <2>2, <2>3, <2>7, <2>8 DEF NamesInv, Workers, InsertNames
  <1>10. CASE Write(k)
    <2>1. op'[k].step = "idle" /\ \A j \in Workers : j # k => op'[j] = op[j]
      BY <1>10, OpChange DEF Write
    <2>2. op[k].step = "put" /\ uniform_insert_counter' = uniform_insert_counter
      BY <1>10 DEF Write
    <2>3. DOMAIN store' \subseteq DOMAIN store \cup {NameOf(op[k])}
      BY <1>10 DEF Write, Put
    <2>4. NumOK(op[k])
      BY <2>2 DEF NamesInv
    <2>5. ASSUME NameOf(op[k]) \in InsertNames
          PROVE  Inserting(k) /\ NameOf(op[k]) = op[k].num /\ op[k].num < uniform_insert_counter
      BY <1>0, <2>2, <2>4, <2>5 DEF NamesApart, NameOf, NumOK, Inserting
    <2>6. \A j \in Workers : Inserting(j)' => j # k /\ Inserting(j) /\ op'[j] = op[j]
      BY <2>1 DEF Inserting
    <2>7. ASSUME NEW n \in DOMAIN store', n \in InsertNames
          PROVE  n < uniform_insert_counter /\ \A j \in Workers : Inserting(j)' => op'[j].num # n
      <3>1. CASE n \in DOMAIN store
        BY <2>6, <2>7, <3>1 DEF NamesInv
      <3>2. CASE n = NameOf(op[k])
        BY <2>5, <2>6, <2>7, <3>2 DEF NamesInv
      <3> QED BY <2>3, <3>1, <3>2
    <2>8. \A j \in Workers : op'[j].step \notin {"idle", "scan"} => NumOK(op[j])'
      BY <2>1, <2>2 DEF NamesInv, NumOK, OtherNums
    <2>9. \A i, j \in Workers : i # j /\ Inserting(i)' /\ Inserting(j)' => op'[i].num # op'[j].num
      BY <2>6 DEF NamesInv
    <2> QED BY <2>2, <2>7, <2>8, <2>9 DEF NamesInv, Workers, InsertNames
  <1> QED BY <1>1, <1>2, <1>4, <1>5, <1>6, <1>7, <1>8, <1>9, <1>10 DEF ClientWorkerNext, OpFails

(***************************************************************************)
(* The steps of a worker keep the counter within one name per transaction. *)
(***************************************************************************)
LEMMA CounterWorker ==
  ASSUME KnownInsert, CounterInv, NEW k \in Workers, ClientWorkerNext(k)
  PROVE  CounterInv'
  <1> USE DEF KnownInsert
  <1>0. UniformInsertStart \in Nat /\ OperationCount \in Nat /\ uniform_insert_counter \in Nat
    BY ClientAssumption, DriverAssumption DEF ClientTypeOK
  <1>1. pc' = pc /\ phase' = phase
    BY DEF ClientWorkerNext, DoInsert, TransactionInsert, TransactionStart, StartOp,
           ReadHit, ReadMiss, MissLoad, MissStore, AfterRead, Write, Scan, OpFails,
           OpGoes, OpDone, WorkerOp, WorkerFails, WorkerInit, WorkerReturn, ExitProcess, End,
           WorkerGoes, vars
  <1>2. CASE TransactionInsert(k)
    <2>1. /\ phase = "run" /\ InLoop(k) /\ op[k].step = "idle"
          /\ uniform_insert_counter' = uniform_insert_counter + 1
      BY <1>2 DEF TransactionInsert, InClient
    <2>2. /\ pc \in Busy /\ Cardinality(StartedOps) \in Nat
          /\ Cardinality(StartedOps) + 1 <= OperationCount
      BY <2>1, RoomForOne DEF Total
    <2>3. Cardinality(StartedOps') = Cardinality(StartedOps) + 1
      BY <1>0, <2>1, StartedWorker
    <2>4. pc # "init" /\ uniform_insert_counter <= UniformInsertStart + Cardinality(StartedOps)
      BY <2>1, <2>2 DEF CounterInv, Busy
    <2> QED BY <1>0, <1>1, <2>1, <2>2, <2>3, <2>4 DEF CounterInv
  <1>3. CASE uniform_insert_counter' = uniform_insert_counter
    <2>1. CASE StartedOps' = StartedOps
      BY <1>1, <1>3, <2>1 DEF CounterInv
    <2>2. CASE InLoop(k) /\ op[k].step = "idle"
               /\ Cardinality(StartedOps') = Cardinality(StartedOps) + 1
      <3>1. Cardinality(StartedOps) \in Nat
        BY <2>2, RoomForOne
      <3> QED BY <1>0, <1>1, <1>3, <2>2, <3>1 DEF CounterInv
    <2> QED BY <2>1, <2>2, StartedWorker
  <1>4. TransactionInsert(k) \/ uniform_insert_counter' = uniform_insert_counter
    BY DEF ClientWorkerNext, DoInsert, TransactionStart, ReadHit, ReadMiss, MissLoad,
           MissStore, Write, Scan, OpFails, clientVars
  <1> QED BY <1>2, <1>3, <1>4

(***************************************************************************)
(* The steps of main and of the statistics threads, and the ends of the    *)
(* process, leave the counter alone; a phase starts with nothing started.  *)
(***************************************************************************)
LEMMA CounterOther ==
  ASSUME KnownInsert, CounterInv,
         \/ ClientInitWorkload \/ ClientEndPhase
         \/ /\ UNCHANGED clientVars
            /\ QuietMainStep \/ StatStep \/ (\E how \in Ended : End(how)) \/ UNCHANGED vars
  PROVE  CounterInv'
  <1> USE DEF KnownInsert
  <1>0. UniformInsertStart \in Nat /\ uniform_insert_counter' = uniform_insert_counter
    BY ClientAssumption DEF ClientInitWorkload, ClientEndPhase, clientVars
  <1>1. CASE ClientInitWorkload
    <2>1. pc = "init" /\ phase' = phase /\ pc' = "launch"
      BY <1>1 DEF ClientInitWorkload, InitWorkload, At
    <2>2. \A k \in Workers : worker'[k].i = 0 /\ op'[k].step = "idle"
      <3>1. \A k \in Workers : op[k].step = "idle"
        BY <2>1, AllIdle DEF Busy, DriverInv, KeysInv
      <3> QED BY <1>1, <3>1 DEF ClientInitWorkload, InitWorkload, FreshWorker
    <2>3. StartedOps' = {}
      BY <2>2 DEF StartedOps, Workers
    <2> QED BY <1>0, <2>1, <2>3, FS_EmptySet DEF CounterInv
  <1>2. CASE ClientEndPhase
    <2>1. \/ pc' = "init" /\ phase # "run"
          \/ pc' = "stats" /\ phase' = phase
      BY <1>2 DEF ClientEndPhase, EndPhase, Advance, NextPhase
    <2> QED BY <1>0, <2>1 DEF CounterInv, Busy
  <1>3. CASE UNCHANGED clientVars /\ (CreateBasic \/ CreateCloud)
    <2>1. phase = "none" /\ (pc' = "init" \/ (pc' = "stats" /\ phase' = phase))
      BY <1>3 DEF CreateBasic, CreateCloud, OpenDB, Advance, NextPhase, At, DriverInv, Stages
    <2> QED BY <1>0, <2>1 DEF CounterInv, Busy
  <1>4. CASE UNCHANGED clientVars /\ LaunchWorker
    <2>1. futures \in Workers
      <3>1. futures < cmd.threads /\ futures \in Nat /\ cmd.threads \in 1..MaxThreads
        BY <1>4, CommandType DEF LaunchWorker, DriverInv, TypeOK
      <3> QED BY <3>1, DriverAssumption DEF Workers
    <2>2. \A k \in Workers : worker'[k].i = worker[k].i
      BY <1>4, <2>1 DEF LaunchWorker, DriverInv, TypeOK
    <2>3. StartedOps' = StartedOps
      BY <1>4, <2>2, StartedSame DEF clientVars
    <2>4. pc' = pc /\ phase' = phase
      BY <1>4 DEF LaunchWorker
    <2> QED BY <1>0, <2>3, <2>4 DEF CounterInv
  <1>5. CASE /\ UNCHANGED clientVars
             /\ EndLaunch \/ JoinWorker \/ StatStep \/ (\E how \in Ended : End(how))
                \/ UNCHANGED vars
    <2>1. UNCHANGED <<worker, phase>> /\ (pc' = pc \/ (pc \in Busy /\ pc' \in Busy))
      BY <1>5 DEF EndLaunch, JoinWorker, At, Busy, StatStep, StatGoes, End, vars
    <2>2. StartedOps' = StartedOps
      BY <1>5, <2>1, StartedSame DEF clientVars
    <2> QED BY <1>0, <2>1, <2>2, SMTT(30) DEF CounterInv, Busy
  <1>6. CASE /\ UNCHANGED clientVars
             /\ PrintStats \/ SetFinish \/ SetDone \/ JoinMy \/ JoinRocks \/ DeleteDB \/ Return
    <2>1. phase' = phase /\ pc' \notin Busy /\ pc' # "init"
      BY <1>6 DEF PrintStats, SetFinish, SetDone, JoinMy, JoinRocks, JoinStat, DeleteDB,
                  Return, Busy
    <2> QED BY <1>0, <2>1 DEF CounterInv
  <1> QED BY <1>1, <1>2, <1>3, <1>4, <1>5, <1>6 DEF QuietMainStep

(***************************************************************************)
(* Main launches as many workers as its command line asks for.             *)
(***************************************************************************)
LEMMA LaunchedKept ==
  ASSUME TypeOK, Launched, [Next]_vars
  PROVE  Launched'
  <1>1. CASE LaunchWorker \/ EndLaunch \/ JoinWorker
    BY <1>1, CommandType DEF LaunchWorker, EndLaunch, JoinWorker, Launched, TypeOK, At, Busy
  <1>2. CASE InitWorkload
    BY <1>2, CommandType DEF InitWorkload, Launched, TypeOK
  <1>3. CASE MainStep /\ ~LaunchWorker /\ ~EndLaunch /\ ~JoinWorker /\ ~InitWorkload
    <2>1. pc' \notin Busy
      BY <1>3 DEF MainStep, CreateBasic, CreateCloud, OpenDB, EndPhase, Advance, PrintStats,
                  SetFinish, SetDone, JoinMy, JoinRocks, JoinStat, DeleteDB, Return, Busy
    <2> QED BY <2>1 DEF Launched
  <1>4. CASE \/ \E how \in Ended : EndStep(how)
             \/ WorkerStep \/ StatStep \/ UNCHANGED vars
    <2>1. UNCHANGED <<pc, futures, cmd>>
      BY <1>4 DEF EndStep, End, WorkerStep, WorkerInit, WorkerOp, WorkerFails, WorkerReturn,
                  WorkerGoes, StatStep, StatGoes, vars
    <2> QED BY <2>1, SMTT(30) DEF Launched
  <1>5. CASE Restart
    BY <1>5 DEF Restart, Launched, Busy
  <1> QED BY <1>1, <1>2, <1>3, <1>4, <1>5, Steps

(***************************************************************************)
(* In the first process over a DB a transaction's insert creates a record, *)
(* for every number of workers, operations and command lines, provided the *)
(* names that inserts use are no other key's.                              *)
(***************************************************************************)
THEOREM InsertsCreate == ASSUME NamesApart PROVE ClientSpec => InsertCreates
  <1> DEFINE Base == DriverInv /\ ClientTypeOK /\ KeysInv /\ DurableInv /\ MissInv
  <1>0. ClientSpec => []Base
    BY DurableInvariant, MissInvariant, PTL
  <1>1. ClientInit => InsertInv
    <2> SUFFICES ASSUME ClientInit PROVE InsertInv
      OBVIOUS
    <2>1. \A k \in Workers : op[k].step = "idle"
      BY DEF ClientInit, Idle
    <2>2. phase = "none" /\ pc = "create" /\ uniform_insert_counter = UniformInsertStart
          /\ DOMAIN store = {}
      BY DEF ClientInit, Init
    <2> QED BY <2>1, <2>2, ClientAssumption, DriverAssumption
            DEF InsertInv, Launched, CounterInv, NamesInv, Inserting, Busy
  <1>2. Base /\ InsertInv /\ [ClientNext]_allVars => InsertInv'
    <2> SUFFICES ASSUME KnownInsert, [ClientNext]_allVars PROVE InsertInv'
      BY DEF KnownInsert
    <2>1. Launched'
      BY StepSimulation, LaunchedKept DEF KnownInsert, DriverInv, InsertInv
    <2>2. CASE ClientRestart
      <3>1. lives' # 1
        BY <2>2 DEF ClientRestart, Restart, KnownInsert, DriverInv, TypeOK
      <3> QED BY <2>1, <3>1 DEF InsertInv
    <2>3. CASE ~ClientRestart
      <3>1. lives' = lives
        BY <2>3, ClientSteps, WorkerSimulation
           DEF WorkerNext, WorkerInit, WorkerOp, WorkerFails, WorkerReturn, ExitProcess, End,
               WorkerGoes, ClientInitWorkload, InitWorkload, ClientEndPhase, EndPhase,
               QuietMainStep, CreateBasic, CreateCloud, OpenDB, LaunchWorker, EndLaunch,
               JoinWorker, PrintStats, SetFinish, SetDone, JoinMy, JoinRocks, JoinStat,
               DeleteDB, Return, StatStep, StatGoes, vars
      <3>2. ASSUME lives = 1 PROVE CounterInv' /\ NamesInv'
        <4>1. CounterInv /\ NamesInv
          BY <3>2 DEF KnownInsert, InsertInv
        <4>2. CounterInv'
          BY <2>3, <4>1, ClientSteps, CounterWorker, CounterOther
        <4>3. ASSUME NEW k \in Workers, ClientWorkerNext(k) PROVE NamesInv'
          BY <4>1, <4>3, NamesWorker
        <4>4. ASSUME UNCHANGED <<op, store, uniform_insert_counter>> PROVE NamesInv'
          BY <4>1, <4>4, NamesKept
        <4>5. NamesInv'
          BY <2>3, <4>3, <4>4, ClientSteps DEF ClientInitWorkload, ClientEndPhase, clientVars
        <4> QED BY <4>2, <4>5
      <3> QED BY <2>1, <3>1, <3>2, SMTT(30) DEF InsertInv
    <2> QED BY <2>2, <2>3
  <1>3. Base /\ InsertInv /\ [ClientNext]_allVars =>
          [\A k \in Workers :
             lives = 1 /\ Inserting(k) /\ Reaches /\ worker'[k].i = worker[k].i + 1 =>
               NameOf(op[k]) \notin DOMAIN store]_allVars
    <2> SUFFICES ASSUME KnownInsert, NEW k \in Workers, lives = 1, Inserting(k)
                 PROVE  NameOf(op[k]) \notin DOMAIN store
      BY DEF KnownInsert
    <2>1. CounterInv /\ NamesInv
      BY DEF KnownInsert, InsertInv
    <2>2. NameOf(op[k]) = op[k].num /\ op[k].num \in UniformInsertStart..(uniform_insert_counter - 1)
      BY <2>1 DEF NameOf, Inserting, NamesInv, NumOK
    <2>3. op[k].num \in InsertNames
      BY <2>1, <2>2, ClientAssumption, DriverAssumption
         DEF InsertNames, CounterInv, KnownInsert, ClientTypeOK
    <2> QED BY <2>1, <2>2, <2>3 DEF NamesInv
  <1> QED BY <1>0, <1>1, <1>2, <1>3, PTL DEF ClientSpec, InsertCreates
=============================================================================
