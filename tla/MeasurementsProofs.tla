------------------------- MODULE MeasurementsProofs -------------------------
(***************************************************************************)
(* Proofs about Measurements, for every number of threads and operations,  *)
(* every mix of operations and every histogram.                            *)
(***************************************************************************)
EXTENDS Measurements, SequenceTheorems, WellFoundedInduction, TLAPS

(***************************************************************************)
(* The inductive invariant.  A worker is in the bookkeeping of an          *)
(* operation, or worker 0 is in the hiccup line, which resets hdr_last_1s_ *)
(* only, prints first and clears qps last.                                 *)
(***************************************************************************)
WorkInstr  == Adds \cup [do : {"inc"}, cell : {<<"qps">>}, arg : {0}]
LineResets == [do : {"set"}, cell : ResetCells, arg : {0}]
LineInstr  == LineResets \cup [do : {"print", "zero"}, cell : {<<"qps">>}, arg : {0}]

IsLine(s) ==
  /\ s \in Seq(LineInstr)
  /\ s # << >> => s[Len(s)].do = "zero"
  /\ \A i \in 1..Len(s) : s[i].do = "print" => i = 1

Shape == \A k \in Workers : prog[k] \in Seq(WorkInstr) \/ (k = 0 /\ IsLine(prog[k]))

\* What a worker holds in a register is no more than was added to the cell.
Registers ==
  \A k \in Workers : half[k] = "store" =>
    /\ prog[k] # << >> /\ Head(prog[k]).do = "add"
    /\ reg[k] <= issued[Head(prog[k]).cell]

\* The line is printed, and qps not yet cleared.
Pending == prog[0] # << >> /\ Head(prog[0]).do \in {"set", "zero"}

\* What was printed, and what qps will still add to it.
Iops == reported + (IF Pending THEN 0 ELSE qps) <= counted

MeasurementsInv ==
  /\ MeasurementsTypeOK /\ Shape
  /\ Registers /\ NeverOvercounts /\ ExecutedIsReported /\ Iops

-----------------------------------------------------------------------------
(* The instruction lists *)

(***************************************************************************)
(* The two lists are made of a worker's instructions.                      *)
(***************************************************************************)
LEMMA InstrKinds == WorkInstr \subseteq Instr /\ LineInstr \subseteq Instr
  BY DEF WorkInstr, LineInstr, LineResets, Instr, Sets, ResetCells

(***************************************************************************)
(* hdr_record_value adds one to a count and to the total.                  *)
(***************************************************************************)
LEMMA RecordType ==
  ASSUME NEW h \in Hists, NEW t \in Latencies
  PROVE  Record(h, t) \in Seq(WorkInstr)
  <1> DEFINE c == <<"counts", h, Bucket(t)>>
             d == <<"total", h, 0>>
  <1>1. CASE Bucket(t) < CountsLen
    <2>1. Bucket(t) \in Buckets
      BY <1>1, MeasurementsAssumption DEF Buckets
    <2>2. c \in HistCells /\ d \in HistCells
      BY <2>1 DEF HistCells
    <2>3. Add(c, 1) \in WorkInstr /\ Add(d, 1) \in WorkInstr
      <3> HIDE DEF c, d
      <3> QED BY <2>2 DEF Add, WorkInstr, Adds
    <2>4. Record(h, t) = <<Add(c, 1), Add(d, 1)>>
      BY <1>1 DEF Record
    <2> QED BY <2>3, <2>4
  <1>2. CASE ~(Bucket(t) < CountsLen)
    BY <1>2, EmptySeq DEF Record
  <1> QED BY <1>1, <1>2

(***************************************************************************)
(* The bookkeeping of an operation is made of additions and one qps++.     *)
(***************************************************************************)
LEMMA AccountType ==
  ASSUME NEW o \in Kinds, NEW t \in Latencies
  PROVE  Account(o, t) \in Seq(WorkInstr)
  <1>1. o \in Hists /\ "hdr_" \in Hists /\ "hdr_last_1s_" \in Hists
    BY DEF Hists
  <1>2. Qps("inc") \in WorkInstr
    BY DEF Qps, WorkInstr
  <1>3. <<Qps("inc")>> \in Seq(WorkInstr)
    BY <1>2
  <1>4. RecordTime(o, t) \in Seq(WorkInstr)
    <2>1. <<Qps("inc")>> \o Record("hdr_", t) \in Seq(WorkInstr)
      BY <1>1, <1>3, RecordType, ConcatProperties
    <2>2. (<<Qps("inc")>> \o Record("hdr_", t)) \o Record("hdr_last_1s_", t) \in Seq(WorkInstr)
      BY <1>1, <2>1, RecordType, ConcatProperties
    <2> QED BY <1>1, <2>2, RecordType, ConcatProperties DEF RecordTime
  <1>5. Add(<<"ops_time", o, 0>>, t) \in WorkInstr
    <2>1. <<"ops_time", o, 0>> \in TimeCells
      BY DEF TimeCells
    <2>2. t \in Nat
      BY MeasurementsAssumption
    <2> QED BY <2>1, <2>2 DEF Add, WorkInstr, Adds
  <1>6. Add(<<"ops_cnt", o, 0>>, 1) \in WorkInstr
    <2>1. <<"ops_cnt", o, 0>> \in CountCells
      BY DEF CountCells
    <2> QED BY <2>1 DEF Add, WorkInstr, Adds
  <1>7. <<Add(<<"ops_time", o, 0>>, t), Add(<<"ops_cnt", o, 0>>, 1)>> \in Seq(WorkInstr)
    BY <1>5, <1>6
  <1> QED BY <1>4, <1>7, ConcatProperties DEF Account

(***************************************************************************)
(* The hiccup line prints first, clears qps last and resets hdr_last_1s_   *)
(* only.                                                                   *)
(***************************************************************************)
LEMMA HiccupLine ==
  /\ IsLine(Hiccup)
  /\ Hiccup # << >> /\ Head(Hiccup).do = "print"
  <1> DEFINE first  == <<Qps("print")>>
             total  == <<Set(<<"total", "hdr_last_1s_", 0>>, 0)>>
             counts == [j \in 1..CountsLen |-> Set(<<"counts", "hdr_last_1s_", j - 1>>, 0)]
             last   == <<Qps("zero")>>
  <1>1. first \in Seq(LineInstr) /\ Len(first) = 1 /\ first[1].do = "print"
    BY DEF Qps, LineInstr
  <1>2. last \in Seq(LineInstr) /\ Len(last) = 1 /\ last[1].do = "zero"
    BY DEF Qps, LineInstr
  <1>3. total \in Seq(LineResets) /\ Len(total) = 1
    <2>1. <<"total", "hdr_last_1s_", 0>> \in ResetCells
      BY DEF ResetCells, HistCells, Hists
    <2> QED BY <2>1 DEF Set, LineResets
  <1>4. counts \in Seq(LineResets)
    <2>1. ASSUME NEW j \in 1..CountsLen
          PROVE  Set(<<"counts", "hdr_last_1s_", j - 1>>, 0) \in LineResets
      <3>1. j - 1 \in Buckets
        BY MeasurementsAssumption DEF Buckets
      <3>2. <<"counts", "hdr_last_1s_", j - 1>> \in ResetCells
        BY <3>1 DEF ResetCells, HistCells, Hists
      <3> QED BY <3>2 DEF Set, LineResets
    <2>2. counts \in [1..CountsLen -> LineResets]
      BY <2>1
    <2> QED BY <2>2, SeqDef, MeasurementsAssumption
  <1> HIDE DEF first, total, counts, last
  <1> DEFINE resets == total \o counts
             front  == first \o resets
             line   == front \o last
  <1>5. resets \in Seq(LineResets)
    BY <1>3, <1>4, ConcatProperties
  <1> HIDE DEF resets
  <1>6. resets \in Seq(LineInstr)
    BY <1>5, SeqMonotonic DEF LineInstr
  <1>7. \A i \in 1..Len(resets) : resets[i].do = "set"
    <2> SUFFICES ASSUME NEW i \in 1..Len(resets) PROVE resets[i].do = "set"
      OBVIOUS
    <2>1. resets[i] \in LineResets
      BY <1>5, ElementOfSeq
    <2> QED BY <2>1 DEF LineResets
  <1>8. Len(resets) \in Nat
    BY <1>5, LenProperties
  <1>9. /\ front \in Seq(LineInstr)
        /\ Len(front) = 1 + Len(resets)
        /\ \A i \in 1..(1 + Len(resets)) : front[i] = IF i <= 1 THEN first[i] ELSE resets[i - 1]
    <2>1. /\ front \in Seq(LineInstr)
          /\ Len(front) = Len(first) + Len(resets)
          /\ \A i \in 1..(Len(first) + Len(resets)) :
                front[i] = IF i <= Len(first) THEN first[i] ELSE resets[i - Len(first)]
      BY <1>1, <1>6, ConcatProperties, Zenon
    <2> QED BY <1>1, <2>1
  <1> HIDE DEF front
  <1>10. \A i \in 1..(1 + Len(resets)) : front[i].do = "print" => i = 1
    <2> SUFFICES ASSUME NEW i \in 1..(1 + Len(resets)), front[i].do = "print", i # 1
                 PROVE  FALSE
      OBVIOUS
    <2>1. i - 1 \in 1..Len(resets)
      BY <1>8
    <2>2. front[i] = resets[i - 1]
      BY <1>8, <1>9
    <2> QED BY <1>7, <2>1, <2>2
  <1>11. front[1].do = "print"
    BY <1>1, <1>8, <1>9
  <1>12. /\ line \in Seq(LineInstr)
         /\ Len(line) = 2 + Len(resets)
         /\ \A i \in 1..(2 + Len(resets)) :
               line[i] = IF i <= 1 + Len(resets) THEN front[i] ELSE last[i - (1 + Len(resets))]
    <2>1. /\ line \in Seq(LineInstr)
          /\ Len(line) = Len(front) + Len(last)
          /\ \A i \in 1..(Len(front) + Len(last)) :
                line[i] = IF i <= Len(front) THEN front[i] ELSE last[i - Len(front)]
      BY <1>2, <1>9, ConcatProperties, Zenon
    <2> HIDE DEF line
    <2>2. Len(front) + Len(last) = 2 + Len(resets)
      BY <1>2, <1>8, <1>9
    <2> QED BY <1>9, <2>1, <2>2
  <1> HIDE DEF line
  <1>13. line[Len(line)].do = "zero"
    BY <1>2, <1>8, <1>12
  <1>14. \A i \in 1..Len(line) : line[i].do = "print" => i = 1
    <2> SUFFICES ASSUME NEW i \in 1..Len(line), line[i].do = "print"
                 PROVE  i = 1
      OBVIOUS
    <2>1. i <= 1 + Len(resets)
      BY <1>8, <1>12, <1>13
    <2> QED BY <1>8, <1>10, <1>12, <2>1
  <1>15. line # << >> /\ Head(line).do = "print"
    <2>1. line[1].do = "print" /\ Len(line) # 0
      BY <1>8, <1>11, <1>12
    <2> QED BY <1>12, <2>1, EmptySeq
  <1>16. Hiccup = line
    BY DEF Hiccup, Reset, line, front, resets, first, total, counts, last
  <1> QED BY <1>12, <1>13, <1>14, <1>15, <1>16 DEF IsLine

(***************************************************************************)
(* The lists stay of their shape when their first instruction is done.     *)
(***************************************************************************)
LEMMA TailShape ==
  ASSUME NEW s, s # << >>
  PROVE  /\ s \in Seq(WorkInstr) =>
              Tail(s) \in Seq(WorkInstr) /\ Head(s) \in WorkInstr
         /\ IsLine(s) =>
              /\ IsLine(Tail(s)) /\ Head(s) \in LineInstr
              /\ Head(s).do # "zero" =>
                   /\ Len(s) # 1
                   /\ Tail(s) # << >> /\ Head(Tail(s)).do \in {"set", "zero"}
  <1>1. ASSUME s \in Seq(WorkInstr)
        PROVE  Tail(s) \in Seq(WorkInstr) /\ Head(s) \in WorkInstr
    BY <1>1, HeadTailProperties
  <1>2. ASSUME IsLine(s)
        PROVE  /\ IsLine(Tail(s)) /\ Head(s) \in LineInstr
               /\ Head(s).do # "zero" =>
                    /\ Len(s) # 1
                    /\ Tail(s) # << >> /\ Head(Tail(s)).do \in {"set", "zero"}
    <2> DEFINE t == Tail(s)
    <2>1. s \in Seq(LineInstr)
      BY <1>2 DEF IsLine
    <2>2. /\ Head(s) \in LineInstr
          /\ t \in Seq(LineInstr)
          /\ Len(t) = Len(s) - 1
          /\ \A i \in 1..Len(t) : t[i] = s[i + 1]
      BY <2>1, HeadTailProperties
    <2>3. Len(s) \in Nat \ {0}
      BY <2>1, EmptySeq
    <2>4. \A i \in 1..Len(t) : t[i].do # "print"
      BY <1>2, <2>2, <2>3 DEF IsLine
    <2>5. t # << >> => t[Len(t)].do = "zero"
      <3> SUFFICES ASSUME t # << >> PROVE t[Len(t)].do = "zero"
        OBVIOUS
      <3>1. Len(t) \in Nat \ {0}
        BY <2>2, EmptySeq
      <3>2. t[Len(t)] = s[Len(s)]
        BY <2>2, <2>3, <3>1
      <3> QED BY <1>2, <3>2 DEF IsLine
    <2>6. IsLine(t)
      BY <2>2, <2>4, <2>5 DEF IsLine
    <2>7. ASSUME Head(s).do # "zero"
          PROVE  Len(s) # 1 /\ t # << >> /\ Head(t).do \in {"set", "zero"}
      <3>1. Head(s) = s[1]
        BY <2>1
      <3>2. Len(s) # 1
        BY <1>2, <2>7, <3>1 DEF IsLine
      <3>3. t # << >>
        <4>1. Len(t) # 0
          BY <2>2, <2>3, <3>2
        <4> QED BY <4>1, EmptySeq
      <3>4. Head(t) = t[1] /\ 1 \in 1..Len(t)
        BY <2>2, <3>3, EmptySeq
      <3>5. t[1] \in LineInstr
        BY <2>2, <3>4, ElementOfSeq
      <3>6. t[1].do \in {"set", "zero", "print"}
        BY <3>5 DEF LineInstr, LineResets
      <3> QED BY <2>4, <3>2, <3>3, <3>4, <3>6
    <2> QED BY <2>2, <2>6, <2>7
  <1> QED BY <1>1, <1>2

(***************************************************************************)
(* The instruction a worker is at is of one of the two lists.              *)
(***************************************************************************)
LEMMA HeadKinds ==
  ASSUME Shape, NEW k \in Workers, prog[k] # << >>
  PROVE  /\ Head(prog[k]).do \in {"add", "inc"} =>
              Head(prog[k]) \in WorkInstr /\ prog[k] \in Seq(WorkInstr)
         /\ Head(prog[k]).do \in {"set", "print", "zero"} =>
              k = 0 /\ Head(prog[k]) \in LineInstr /\ IsLine(prog[k])
  <1>1. CASE prog[k] \in Seq(WorkInstr)
    <2>1. Head(prog[k]) \in WorkInstr
      BY <1>1, TailShape
    <2>2. Head(prog[k]).do \in {"add", "inc"}
      BY <2>1 DEF WorkInstr, Adds
    <2> QED BY <1>1, <2>1, <2>2
  <1>2. CASE k = 0 /\ IsLine(prog[k])
    <2>1. Head(prog[k]) \in LineInstr
      BY <1>2, TailShape
    <2>2. Head(prog[k]).do \in {"set", "print", "zero"}
      BY <2>1 DEF LineInstr, LineResets
    <2> QED BY <1>2, <2>1, <2>2
  <1> QED BY <1>1, <1>2 DEF Shape

(***************************************************************************)
(* What the end of an instruction does to the lists: worker k's alone      *)
(* changes, and the line is printed before qps is cleared.                 *)
(***************************************************************************)
LEMMA StepShape ==
  ASSUME MeasurementsTypeOK, Shape, NEW k \in Workers, prog[k] # << >>, Step(k)
  PROVE  /\ prog' \in [Workers -> Seq(Instr)]
         /\ Shape'
         /\ \A j \in Workers : j # k => prog'[j] = prog[j]
         /\ k = 0 /\ Head(prog[k]).do \in {"add", "inc"} => ~Pending'
         /\ Head(prog[k]).do \in {"set", "print"} => Pending'
  <1> DEFINE P == prog'[k]
  <1>0. prog \in [Workers -> Seq(Instr)]
    BY DEF MeasurementsTypeOK
  <1>1. \/ prog' = [prog EXCEPT ![k] = Tail(prog[k])]
        \/ /\ k = 0 /\ Len(prog[k]) = 1 /\ Head(prog[k]).do # "zero"
           /\ prog' = [prog EXCEPT ![k] = Hiccup]
    BY DEF Step
  <1>2. \/ P = Tail(prog[k])
        \/ k = 0 /\ Len(prog[k]) = 1 /\ Head(prog[k]).do # "zero" /\ P = Hiccup
    BY <1>0, <1>1
  <1>3. \A j \in Workers : j # k => prog'[j] = prog[j]
    BY <1>0, <1>1
  <1>4. P \in Seq(WorkInstr) \/ (k = 0 /\ IsLine(P))
    <2>1. CASE P = Tail(prog[k])
      <3>1. CASE prog[k] \in Seq(WorkInstr)
        BY <2>1, <3>1, TailShape
      <3>2. CASE k = 0 /\ IsLine(prog[k])
        BY <2>1, <3>2, TailShape
      <3> QED BY <3>1, <3>2 DEF Shape
    <2>2. CASE k = 0 /\ P = Hiccup
      BY <2>2, HiccupLine
    <2> QED BY <1>2, <2>1, <2>2
  <1>5. P \in Seq(Instr)
    <2>1. CASE P \in Seq(WorkInstr)
      BY <2>1, InstrKinds, SeqMonotonic
    <2>2. CASE IsLine(P)
      <3>1. P \in Seq(LineInstr)
        BY <2>2 DEF IsLine
      <3> QED BY <3>1, InstrKinds, SeqMonotonic
    <2> QED BY <1>4, <2>1, <2>2
  <1>6. prog' = [prog EXCEPT ![k] = P]
    BY <1>0, <1>1
  <1>7. prog' \in [Workers -> Seq(Instr)]
    BY <1>0, <1>5, <1>6
  <1>8. Shape'
    BY <1>3, <1>4 DEF Shape, Workers
  <1>9. ASSUME k = 0, Head(prog[k]).do \in {"add", "inc"}
        PROVE  ~Pending'
    <2>1. prog[k] \in Seq(WorkInstr)
      BY <1>9, HeadKinds
    <2>2. CASE P = Tail(prog[k])
      <3>1. P \in Seq(WorkInstr)
        BY <2>1, <2>2, TailShape
      <3>2. P # << >> => Head(P) \in WorkInstr
        BY <3>1, TailShape
      <3>3. P # << >> => Head(P).do \in {"add", "inc"}
        BY <3>2 DEF WorkInstr, Adds
      <3> QED BY <1>9, <3>3 DEF Pending
    <2>3. CASE P = Hiccup
      BY <1>9, <2>3, HiccupLine DEF Pending
    <2> QED BY <1>2, <2>2, <2>3
  <1>10. ASSUME Head(prog[k]).do \in {"set", "print"}
         PROVE  Pending'
    <2>1. k = 0 /\ IsLine(prog[k])
      BY <1>10, HeadKinds
    <2>2. /\ Len(prog[k]) # 1
          /\ Tail(prog[k]) # << >> /\ Head(Tail(prog[k])).do \in {"set", "zero"}
      BY <1>10, <2>1, TailShape
    <2>3. P = Tail(prog[k])
      BY <1>2, <2>2
    <2> QED BY <2>1, <2>2, <2>3 DEF Pending
  <1> QED BY <1>3, <1>7, <1>8, <1>9, <1>10

-----------------------------------------------------------------------------
(* The actions *)

(***************************************************************************)
(* Cells are distinct, and the ones that are never reset are added to by   *)
(* one.                                                                    *)
(***************************************************************************)
LEMMA AddFacts ==
  ASSUME NEW i \in WorkInstr, i.do = "add"
  PROVE  /\ i.cell \in Cells /\ i.arg \in Nat
         /\ i.cell \in Lasting => i.arg = 1
  <1>1. i \in Adds
    BY DEF WorkInstr
  <1>2. TimeCells \cap Lasting = {}
    BY DEF TimeCells, Lasting, CountCells, HistCells
  <1> QED BY <1>1, <1>2 DEF Adds, Cells

(***************************************************************************)
(* A reset touches a cell of hdr_last_1s_.                                 *)
(***************************************************************************)
LEMMA SetFacts ==
  ASSUME NEW i \in LineInstr, i.do = "set"
  PROVE  i.cell \in Cells /\ i.cell \notin Lasting /\ i.arg = 0
  BY DEF LineInstr, LineResets, ResetCells, Lasting, Cells

(***************************************************************************)
(* The next operation: its bookkeeping is a new list.                      *)
(***************************************************************************)
LEMMA ExecuteInv ==
  ASSUME MeasurementsInv, NEW k \in Workers, Execute(k)
  PROVE  MeasurementsInv'
  <1> USE DEF MeasurementsInv, Execute
  <1>1. PICK o \in Kinds, t \in Latencies : prog' = [prog EXCEPT ![k] = Account(o, t)]
    OBVIOUS
  <1>2. Account(o, t) \in Seq(WorkInstr)
    BY AccountType
  <1>3. Account(o, t) \in Seq(Instr)
    BY <1>2, InstrKinds, SeqMonotonic
  <1>4. prog' \in [Workers -> Seq(Instr)]
    BY <1>1, <1>3 DEF MeasurementsTypeOK
  <1>5. prog'[k] = Account(o, t) /\ \A j \in Workers : j # k => prog'[j] = prog[j]
    BY <1>1 DEF MeasurementsTypeOK
  <1>6. left' \in [Workers -> 0..OpsPerThread]
    BY MeasurementsAssumption DEF MeasurementsTypeOK
  <1>7. MeasurementsTypeOK'
    BY <1>4, <1>6 DEF MeasurementsTypeOK
  <1>8. Shape'
    BY <1>2, <1>5 DEF Shape, Workers
  <1>9. Registers'
    BY <1>5 DEF Registers, Workers
  <1>10. NeverOvercounts' /\ ExecutedIsReported'
    BY DEF NeverOvercounts, ExecutedIsReported, Lasting, ResetCells, Cells, TimeCells,
           CountCells, HistCells, Hists, Buckets
  <1>11. k = 0 => ~Pending /\ ~Pending'
    <2>1. Account(o, t) # << >> => Head(Account(o, t)) \in WorkInstr
      BY <1>2, TailShape
    <2>2. Account(o, t) # << >> => Head(Account(o, t)).do \in {"add", "inc"}
      BY <2>1 DEF WorkInstr, Adds
    <2> QED BY <1>5, <2>2 DEF Pending
  <1>12. k # 0 => (Pending' <=> Pending)
    BY <1>5, MeasurementsAssumption DEF Pending, Workers
  <1>13. Iops'
    BY <1>11, <1>12 DEF Iops
  <1> QED BY <1>7, <1>8, <1>9, <1>10, <1>13

(***************************************************************************)
(* Worker 0 is there.                                                      *)
(***************************************************************************)
LEMMA WorkerZero == 0 \in Workers
  BY MeasurementsAssumption DEF Workers

(***************************************************************************)
(* A load takes into the register what the cell holds.                     *)
(***************************************************************************)
LEMMA LoadInv ==
  ASSUME MeasurementsInv, NEW k \in Workers, Load(k)
  PROVE  MeasurementsInv'
  <1> USE DEF MeasurementsInv, Load, Doing
  <1> DEFINE c == Head(prog[k]).cell
  <1>1. c \in Cells
    BY HeadKinds, AddFacts
  <1>2. MeasurementsTypeOK'
    BY <1>1 DEF MeasurementsTypeOK
  <1>3. Registers'
    <2> SUFFICES ASSUME NEW j \in Workers, half'[j] = "store"
                 PROVE  /\ prog[j] # << >> /\ Head(prog[j]).do = "add"
                        /\ reg'[j] <= issued[Head(prog[j]).cell]
      BY DEF Registers, Workers
    <2>1. CASE j = k
      <3>1. reg'[k] = mem[c]
        BY DEF MeasurementsTypeOK
      <3> QED BY <1>1, <2>1, <3>1 DEF NeverOvercounts
    <2>2. CASE j # k
      BY <2>2 DEF Registers, MeasurementsTypeOK
    <2> QED BY <2>1, <2>2
  <1>4. Shape'
    BY DEF Shape, Workers
  <1>5. NeverOvercounts' /\ ExecutedIsReported'
    BY DEF NeverOvercounts, ExecutedIsReported, Lasting, ResetCells, Cells, TimeCells,
           CountCells, HistCells, Hists, Buckets
  <1>6. Iops'
    BY DEF Iops, Pending
  <1> QED BY <1>2, <1>3, <1>4, <1>5, <1>6

(***************************************************************************)
(* A store writes no more than was added, and not nothing.                 *)
(***************************************************************************)
LEMMA StoreInv ==
  ASSUME MeasurementsInv, NEW k \in Workers, Store(k)
  PROVE  MeasurementsInv'
  <1> USE DEF MeasurementsInv, Store, Doing
  <1> DEFINE i == Head(prog[k])
  <1>1. i \in WorkInstr /\ i.cell \in Cells /\ i.arg \in Nat
        /\ (i.cell \in Lasting => i.arg = 1)
    BY HeadKinds, AddFacts
  <1>2. reg[k] \in Nat /\ reg[k] <= issued[i.cell] /\ issued[i.cell] \in Nat
    BY <1>1 DEF Registers, MeasurementsTypeOK
  <1>3. /\ mem' = [mem EXCEPT ![i.cell] = reg[k] + i.arg]
        /\ issued' = [issued EXCEPT ![i.cell] = issued[i.cell] + i.arg]
    OBVIOUS
  <1>4. /\ prog' \in [Workers -> Seq(Instr)] /\ Shape'
        /\ \A j \in Workers : j # k => prog'[j] = prog[j]
        /\ k = 0 => ~Pending'
    BY StepShape
  <1>5. MeasurementsTypeOK'
    <2>1. mem' \in [Cells -> Nat] /\ issued' \in [Cells -> Nat]
      BY <1>1, <1>2, <1>3 DEF MeasurementsTypeOK
    <2> QED BY <1>4, <2>1 DEF MeasurementsTypeOK
  <1>6. \A d \in Cells : issued[d] <= issued'[d]
    BY <1>1, <1>2, <1>3 DEF MeasurementsTypeOK
  <1>7. Registers'
    <2> SUFFICES ASSUME NEW j \in Workers, half'[j] = "store"
                 PROVE  /\ prog'[j] # << >> /\ Head(prog'[j]).do = "add"
                        /\ reg'[j] <= issued'[Head(prog'[j]).cell]
      BY DEF Registers, Workers
    <2>1. j # k /\ half[j] = "store" /\ reg'[j] = reg[j] /\ prog'[j] = prog[j]
      BY <1>4 DEF MeasurementsTypeOK
    <2>2. /\ prog[j] # << >> /\ Head(prog[j]).do = "add"
          /\ reg[j] <= issued[Head(prog[j]).cell]
      BY <2>1 DEF Registers
    <2>3. Head(prog[j]).cell \in Cells
      BY <2>2, HeadKinds, AddFacts
    <2>4. reg[j] \in Nat /\ issued[Head(prog[j]).cell] \in Nat
          /\ issued'[Head(prog[j]).cell] \in Nat
      BY <1>5, <2>3 DEF MeasurementsTypeOK
    <2> QED BY <1>6, <2>1, <2>2, <2>3, <2>4
  <1>8. NeverOvercounts'
    <2> SUFFICES ASSUME NEW d \in Cells PROVE mem'[d] <= issued'[d]
      BY DEF NeverOvercounts, Cells, TimeCells, CountCells, HistCells, Hists, Buckets
    <2> QED BY <1>1, <1>2, <1>3 DEF NeverOvercounts, MeasurementsTypeOK
  <1>9. ExecutedIsReported'
    <2> SUFFICES ASSUME NEW d \in Lasting, issued'[d] > 0 PROVE mem'[d] > 0
      BY DEF ExecutedIsReported, Lasting, ResetCells, CountCells, HistCells, Hists, Buckets
    <2>1. d \in Cells
      BY DEF Lasting, Cells
    <2> QED BY <1>1, <1>2, <1>3, <2>1 DEF ExecutedIsReported, MeasurementsTypeOK
  <1>10. Iops'
    <2>1. k = 0 => ~Pending
      BY DEF Pending
    <2>2. k # 0 => (Pending' <=> Pending)
      BY <1>4, WorkerZero DEF Pending
    <2> QED BY <1>4, <2>1, <2>2 DEF Iops
  <1> QED BY <1>4, <1>5, <1>7, <1>8, <1>9, <1>10

(***************************************************************************)
(* An instruction that is no addition leaves the registers alone: its      *)
(* worker holds nothing.                                                   *)
(***************************************************************************)
LEMMA RegistersKept ==
  ASSUME MeasurementsInv, NEW k \in Workers, prog[k] # << >>, Head(prog[k]).do # "add",
         \A j \in Workers : j # k => prog'[j] = prog[j],
         UNCHANGED <<half, reg, issued>>
  PROVE  Registers'
  <1> SUFFICES ASSUME NEW j \in Workers, half[j] = "store"
               PROVE  /\ prog'[j] # << >> /\ Head(prog'[j]).do = "add"
                      /\ reg[j] <= issued[Head(prog'[j]).cell]
    BY DEF Registers, Workers
  <1>1. j # k
    BY DEF MeasurementsInv, Registers
  <1> QED BY <1>1 DEF MeasurementsInv, Registers

(***************************************************************************)
(* The counts are as they were where neither they nor the history change.  *)
(***************************************************************************)
LEMMA CountsKept ==
  ASSUME MeasurementsInv, UNCHANGED <<mem, issued>>
  PROVE  NeverOvercounts' /\ ExecutedIsReported'
  BY DEF MeasurementsInv, NeverOvercounts, ExecutedIsReported, Lasting, ResetCells, Cells,
         TimeCells, CountCells, HistCells, Hists, Buckets

(***************************************************************************)
(* A reset lowers a cell that is not lasting.                              *)
(***************************************************************************)
LEMMA AssignInv ==
  ASSUME MeasurementsInv, NEW k \in Workers, Assign(k)
  PROVE  MeasurementsInv'
  <1> USE DEF MeasurementsInv, Assign, Doing
  <1> DEFINE i == Head(prog[k])
  <1>1. k = 0 /\ i \in LineInstr
    BY HeadKinds
  <1>2. i.cell \in Cells /\ i.cell \notin Lasting /\ i.arg = 0
    BY <1>1, SetFacts
  <1>3. mem' = [mem EXCEPT ![i.cell] = 0]
    BY <1>2
  <1>4. /\ prog' \in [Workers -> Seq(Instr)] /\ Shape'
        /\ \A j \in Workers : j # k => prog'[j] = prog[j]
        /\ Pending'
    BY StepShape
  <1>5. MeasurementsTypeOK'
    BY <1>2, <1>3, <1>4 DEF MeasurementsTypeOK
  <1>6. Registers'
    BY <1>4, RegistersKept
  <1>7. NeverOvercounts'
    <2> SUFFICES ASSUME NEW d \in Cells PROVE mem'[d] <= issued[d]
      BY DEF NeverOvercounts, Cells, TimeCells, CountCells, HistCells, Hists, Buckets
    <2> QED BY <1>2, <1>3 DEF NeverOvercounts, MeasurementsTypeOK
  <1>8. ExecutedIsReported'
    <2> SUFFICES ASSUME NEW d \in Lasting, issued[d] > 0 PROVE mem'[d] > 0
      BY DEF ExecutedIsReported, Lasting, ResetCells, CountCells, HistCells, Hists, Buckets
    <2>1. d \in Cells /\ d # i.cell
      BY <1>2 DEF Lasting, Cells
    <2> QED BY <1>3, <2>1 DEF ExecutedIsReported, MeasurementsTypeOK
  <1>9. Pending
    BY <1>1 DEF Pending
  <1>10. Iops'
    BY <1>4, <1>9 DEF Iops
  <1> QED BY <1>4, <1>5, <1>6, <1>7, <1>8, <1>10

(***************************************************************************)
(* qps++ adds to what may be printed as much as to what was counted.       *)
(***************************************************************************)
LEMMA IncrementInv ==
  ASSUME MeasurementsInv, NEW k \in Workers, Increment(k)
  PROVE  MeasurementsInv'
  <1> USE DEF MeasurementsInv, Increment, Doing
  <1>1. /\ prog' \in [Workers -> Seq(Instr)] /\ Shape'
        /\ \A j \in Workers : j # k => prog'[j] = prog[j]
        /\ k = 0 => ~Pending'
    BY StepShape
  <1>2. MeasurementsTypeOK'
    BY <1>1 DEF MeasurementsTypeOK
  <1>3. Registers'
    BY <1>1, RegistersKept
  <1>4. NeverOvercounts' /\ ExecutedIsReported'
    BY CountsKept
  <1>5. Iops'
    <2>1. k = 0 => ~Pending
      BY DEF Pending
    <2>2. k # 0 => (Pending' <=> Pending)
      BY <1>1, WorkerZero DEF Pending
    <2>3. Pending' <=> Pending
      BY <1>1, <2>1, <2>2
    <2>4. reported \in Nat /\ qps \in Nat /\ counted \in Nat
      BY DEF MeasurementsTypeOK
    <2>5. CASE Pending
      BY <2>3, <2>4, <2>5 DEF Iops
    <2>6. CASE ~Pending
      BY <2>3, <2>4, <2>6 DEF Iops
    <2> QED BY <2>5, <2>6
  <1> QED BY <1>1, <1>2, <1>3, <1>4, <1>5

(***************************************************************************)
(* The line prints qps, and from then on qps is not printed again.         *)
(***************************************************************************)
LEMMA PrintLineInv ==
  ASSUME MeasurementsInv, NEW k \in Workers, PrintLine(k)
  PROVE  MeasurementsInv'
  <1> USE DEF MeasurementsInv, PrintLine, Doing
  <1>1. /\ prog' \in [Workers -> Seq(Instr)] /\ Shape'
        /\ \A j \in Workers : j # k => prog'[j] = prog[j]
        /\ Pending'
    BY StepShape
  <1>2. MeasurementsTypeOK'
    BY <1>1 DEF MeasurementsTypeOK
  <1>3. Registers'
    BY <1>1, RegistersKept
  <1>4. NeverOvercounts' /\ ExecutedIsReported'
    BY CountsKept
  <1>5. k = 0
    BY HeadKinds
  <1>6. ~Pending
    BY <1>5 DEF Pending
  <1>7. Iops'
    BY <1>1, <1>6 DEF Iops, MeasurementsTypeOK
  <1> QED BY <1>1, <1>2, <1>3, <1>4, <1>7

(***************************************************************************)
(* Clearing qps loses what it held.                                        *)
(***************************************************************************)
LEMMA ZeroInv ==
  ASSUME MeasurementsInv, NEW k \in Workers, Zero(k)
  PROVE  MeasurementsInv'
  <1> USE DEF MeasurementsInv, Zero, Doing
  <1>1. /\ prog' \in [Workers -> Seq(Instr)] /\ Shape'
        /\ \A j \in Workers : j # k => prog'[j] = prog[j]
    BY StepShape
  <1>2. MeasurementsTypeOK'
    BY <1>1 DEF MeasurementsTypeOK
  <1>3. Registers'
    BY <1>1, RegistersKept
  <1>4. NeverOvercounts' /\ ExecutedIsReported'
    BY CountsKept
  <1>5. k = 0
    BY HeadKinds
  <1>6. Pending
    BY <1>5 DEF Pending
  <1>7. Iops'
    <2>1. reported' + 0 <= counted'
      BY <1>6 DEF Iops
    <2>2. (IF Pending' THEN 0 ELSE qps') = 0
      OBVIOUS
    <2> QED BY <2>1, <2>2 DEF Iops
  <1> QED BY <1>1, <1>2, <1>3, <1>4, <1>7

(***************************************************************************)
(* It holds when the workers start, and a step of any of them keeps it.    *)
(***************************************************************************)
LEMMA MeasurementsInductive ==
  /\ Init => MeasurementsInv
  /\ MeasurementsInv /\ [Next]_vars => MeasurementsInv'
  <1>1. ASSUME Init PROVE MeasurementsInv
    <2> USE <1>1 DEF Init
    <2>1. << >> \in Seq(Instr) /\ << >> \in Seq(WorkInstr)
      BY EmptySeq
    <2>2. qps \in Nat
      BY MeasurementsAssumption
    <2>3. MeasurementsTypeOK
      BY <2>1, <2>2, MeasurementsAssumption DEF MeasurementsTypeOK
    <2>4. Shape
      BY <2>1 DEF Shape
    <2>5. Registers
      BY DEF Registers
    <2>6. NeverOvercounts
      BY DEF NeverOvercounts
    <2>7. ExecutedIsReported
      <3> SUFFICES ASSUME NEW c \in Lasting PROVE issued[c] = 0
        BY DEF ExecutedIsReported
      <3> QED BY DEF Lasting, Cells
    <2>8. ~Pending
      BY WorkerZero DEF Pending
    <2>9. Iops
      BY <2>2, <2>8 DEF Iops
    <2> QED BY <2>3, <2>4, <2>5, <2>6, <2>7, <2>9 DEF MeasurementsInv
  <1>2. ASSUME MeasurementsInv, [Next]_vars PROVE MeasurementsInv'
    <2>1. ASSUME NEW k \in Workers, WorkerNext(k)
          PROVE  MeasurementsInv'
      <3>1. CASE Execute(k)   BY <1>2, <3>1, ExecuteInv
      <3>2. CASE Load(k)      BY <1>2, <3>2, LoadInv
      <3>3. CASE Store(k)     BY <1>2, <3>3, StoreInv
      <3>4. CASE Assign(k)    BY <1>2, <3>4, AssignInv
      <3>5. CASE Increment(k) BY <1>2, <3>5, IncrementInv
      <3>6. CASE PrintLine(k) BY <1>2, <3>6, PrintLineInv
      <3>7. CASE Zero(k)      BY <1>2, <3>7, ZeroInv
      <3> QED BY <2>1, <3>1, <3>2, <3>3, <3>4, <3>5, <3>6, <3>7 DEF WorkerNext
    <2>2. ASSUME UNCHANGED vars
          PROVE  MeasurementsInv'
      <3> USE <1>2, <2>2 DEF MeasurementsInv, vars
      <3>1. MeasurementsTypeOK'
        BY DEF MeasurementsTypeOK
      <3>2. Shape' /\ Registers'
        BY DEF Shape, Registers, Workers
      <3>3. NeverOvercounts' /\ ExecutedIsReported'
        BY CountsKept
      <3>4. Iops'
        BY DEF Iops, Pending
      <3> QED BY <3>1, <3>2, <3>3, <3>4
    <2> QED BY <1>2, <2>1, <2>2 DEF Next
  <1> QED BY <1>1, <1>2

-----------------------------------------------------------------------------
(* The theorems *)

(***************************************************************************)
(* The measurements have their types.                                      *)
(***************************************************************************)
THEOREM MeasurementsTypeCorrect == Spec => []MeasurementsTypeOK
  <1>1. MeasurementsInv => MeasurementsTypeOK
    BY DEF MeasurementsInv
  <1> QED BY <1>1, MeasurementsInductive, PTL DEF Spec

(***************************************************************************)
(* Whatever increments the racing workers lose, none of ops_time, ops_cnt  *)
(* and the histograms ever exceeds what the operations add up to.          *)
(***************************************************************************)
THEOREM RacesOnlyLose == Spec => []NeverOvercounts
  <1>1. MeasurementsInv => NeverOvercounts
    BY DEF MeasurementsInv
  <1> QED BY <1>1, MeasurementsInductive, PTL DEF Spec

(***************************************************************************)
(* The races never lose all increments of a count that is not reset: an    *)
(* operation that was executed is on main's result lines.                  *)
(***************************************************************************)
THEOREM RacesNeverLoseAll == Spec => []ExecutedIsReported
  <1>1. MeasurementsInv => ExecutedIsReported
    BY DEF MeasurementsInv
  <1> QED BY <1>1, MeasurementsInductive, PTL DEF Spec

(***************************************************************************)
(* The IOPS column of the hiccup file adds up to no more than the          *)
(* increments of qps and the garbage it started with.                      *)
(***************************************************************************)
THEOREM IopsBounded == Spec => []IopsNeverOverReported
  <1>1. MeasurementsInv => IopsNeverOverReported
    BY DEF MeasurementsInv, Iops, MeasurementsTypeOK, IopsNeverOverReported
  <1> QED BY <1>1, MeasurementsInductive, PTL DEF Spec

-----------------------------------------------------------------------------
(* The sum of the counts of a histogram *)

(***************************************************************************)
(* Induction and recursion over the naturals, on sets and functions.       *)
(***************************************************************************)

\* A non-empty set of naturals has a least member.
LEMMA LeastNat ==
  ASSUME NEW T \in SUBSET Nat, T # {}
  PROVE  \E x \in T : \A y \in T : x <= y
  <1> DEFINE R == OpToRel(<, Nat)
  <1>1. R = {ss \in Nat \X Nat : ss[1] < ss[2]}
    BY DEF OpToRel
  <1>2. IsWellFoundedOn(R, Nat)
    BY NatLessThanWellFounded
  <1> HIDE DEF R
  <1>3. PICK x \in T : \A y \in T : ~(<<y, x>> \in R)
    BY <1>2, WFMin
  <1>4. \A y \in T : <<y, x>> \in R <=> y < x
    BY <1>1
  <1>5. x \in Nat /\ \A y \in T : y \in Nat /\ ~(y < x)
    BY <1>3, <1>4
  <1> QED BY <1>5

\* A set with 0 and with the successors of its members has every natural.
LEMMA SetInduction ==
  ASSUME NEW S, 0 \in S, \A n \in Nat : n \in S => n + 1 \in S
  PROVE  Nat \subseteq S
  <1> SUFFICES ASSUME Nat \ S # {} PROVE FALSE
    OBVIOUS
  <1>1. PICK x \in Nat \ S : \A y \in Nat \ S : x <= y
    BY LeastNat
  <1>2. x # 0 /\ x - 1 \in Nat
    BY <1>1
  <1>3. x - 1 \in S
    BY <1>1, <1>2
  <1> QED BY <1>1, <1>2, <1>3

\* f is defined on 0..n by a first value and a step function.
Recurs(f, n, a, h) == f = [i \in 0..n |-> IF i = 0 THEN a ELSE h[<<i, f[i - 1]>>]]

\* There is a function defined by recursion.
LEMMA RecursionExists ==
  ASSUME NEW N \in Nat, NEW T, NEW a \in T, NEW h \in [(1..N) \X T -> T]
  PROVE  \E f : Recurs(f, N, a, h) /\ f \in [0..N -> T]
  <1> DEFINE S == {n \in Nat : n <= N => \E f : Recurs(f, n, a, h) /\ f \in [0..n -> T]}
  <1>1. 0 \in S
    <2> DEFINE f == [i \in 0..0 |-> a]
    <2>1. f = [i \in 0..0 |-> IF i = 0 THEN a ELSE h[<<i, f[i - 1]>>]]
      OBVIOUS
    <2>2. f \in [0..0 -> T]
      OBVIOUS
    <2> HIDE DEF f
    <2>3. \E g : Recurs(g, 0, a, h) /\ g \in [0..0 -> T]
      BY <2>1, <2>2 DEF Recurs
    <2> QED BY <2>3
  <1>2. ASSUME NEW n \in Nat, n \in S PROVE n + 1 \in S
    <2> SUFFICES ASSUME n + 1 <= N
                 PROVE  \E f : Recurs(f, n + 1, a, h) /\ f \in [0..(n + 1) -> T]
      OBVIOUS
    <2>1. PICK f : Recurs(f, n, a, h) /\ f \in [0..n -> T]
      BY <1>2
    <2> DEFINE g == [i \in 0..(n + 1) |-> IF i = n + 1 THEN h[<<n + 1, f[n]>>] ELSE f[i]]
    <2>2. h[<<n + 1, f[n]>>] \in T
      BY <2>1
    <2>3. g \in [0..(n + 1) -> T]
      BY <2>1, <2>2
    <2>4. ASSUME NEW i \in 0..(n + 1)
          PROVE  g[i] = IF i = 0 THEN a ELSE h[<<i, g[i - 1]>>]
      <3>1. CASE i = n + 1
        <4>1. n + 1 \in 0..(n + 1) /\ n \in 0..(n + 1) /\ n # n + 1 /\ n + 1 # 0
              /\ (n + 1) - 1 = n
          OBVIOUS
        <4>2. g[n + 1] = h[<<n + 1, f[n]>>] /\ g[n] = f[n]
          BY <4>1
        <4> HIDE DEF g
        <4> QED BY <3>1, <4>1, <4>2
      <3>2. CASE i \in 0..n
        <4>1. f[i] = IF i = 0 THEN a ELSE h[<<i, f[i - 1]>>]
          BY <2>1, <3>2 DEF Recurs
        <4>2. g[i] = f[i] /\ (i # 0 => g[i - 1] = f[i - 1])
          BY <3>2
        <4> QED BY <4>1, <4>2
      <3>3. i = n + 1 \/ i \in 0..n
        OBVIOUS
      <3> HIDE DEF g
      <3> QED BY <3>1, <3>2, <3>3
    <2>5. g = [i \in 0..(n + 1) |-> IF i = 0 THEN a ELSE h[<<i, g[i - 1]>>]]
      BY <2>4
    <2> HIDE DEF g
    <2> QED BY <2>3, <2>5 DEF Recurs
  <1>3. Nat \subseteq S
    <2> HIDE DEF S
    <2> QED BY <1>1, <1>2, SetInduction
  <1>4. N \in S
    BY <1>3
  <1> QED BY <1>4

\* f holds the sums of the first counts of h.
Sums(f, m, h) ==
  f = [n \in 0..CountsLen |-> IF n = 0 THEN 0 ELSE f[n - 1] + m[<<"counts", h, n - 1>>]]

(***************************************************************************)
(* The sums exist, and the last one is Recorded.                           *)
(***************************************************************************)
LEMMA SumsExist ==
  ASSUME NEW m \in [Cells -> Nat], NEW h \in Hists
  PROVE  \E f : Sums(f, m, h) /\ f \in [0..CountsLen -> Int] /\ Recorded(m, h) = f[CountsLen]
  <1> DEFINE g == [x \in (1..CountsLen) \X Int |-> x[2] + m[<<"counts", h, x[1] - 1>>]]
             F == CHOOSE f : f = [n \in 0..CountsLen |->
                                    IF n = 0 THEN 0 ELSE f[n - 1] + m[<<"counts", h, n - 1>>]]
  <1>0. CountsLen \in Nat
    BY MeasurementsAssumption
  <1>1. \A n \in 1..CountsLen : m[<<"counts", h, n - 1>>] \in Nat
    <2> SUFFICES ASSUME NEW n \in 1..CountsLen PROVE m[<<"counts", h, n - 1>>] \in Nat
      OBVIOUS
    <2>1. n - 1 \in Buckets
      BY <1>0 DEF Buckets
    <2>2. <<"counts", h, n - 1>> \in Cells
      BY <2>1 DEF Cells, HistCells
    <2> QED BY <2>2
  <1>2. g \in [(1..CountsLen) \X Int -> Int] /\ 0 \in Int
    BY <1>1
  <1>3. PICK f : Recurs(f, CountsLen, 0, g) /\ f \in [0..CountsLen -> Int]
    <2> HIDE DEF g
    <2> QED BY <1>0, <1>2, RecursionExists
  <1>4. ASSUME NEW n \in 0..CountsLen
        PROVE  f[n] = IF n = 0 THEN 0 ELSE f[n - 1] + m[<<"counts", h, n - 1>>]
    <2>1. f[n] = IF n = 0 THEN 0 ELSE g[<<n, f[n - 1]>>]
      <3> HIDE DEF g
      <3> QED BY <1>3 DEF Recurs
    <2>2. n # 0 => <<n, f[n - 1]>> \in (1..CountsLen) \X Int
      BY <1>0, <1>3
    <2> QED BY <2>1, <2>2
  <1>5. \E e : e = [n \in 0..CountsLen |->
                      IF n = 0 THEN 0 ELSE e[n - 1] + m[<<"counts", h, n - 1>>]]
    <2>1. f = [n \in 0..CountsLen |-> IF n = 0 THEN 0 ELSE f[n - 1] + m[<<"counts", h, n - 1>>]]
      BY <1>3, <1>4
    <2> QED BY <2>1, Zenon
  <1>6. F = [n \in 0..CountsLen |-> IF n = 0 THEN 0 ELSE F[n - 1] + m[<<"counts", h, n - 1>>]]
    BY <1>5, Zenon
  <1>7. Recorded(m, h) = F[CountsLen]
    BY Zenon DEF Recorded
  <1> HIDE DEF F
  <1> DEFINE S == {n \in Nat : n <= CountsLen => F[n] \in Int}
  <1>8. 0 \in S
    BY <1>0, <1>6
  <1>9. ASSUME NEW n \in Nat, n \in S PROVE n + 1 \in S
    <2> SUFFICES ASSUME n + 1 <= CountsLen PROVE F[n + 1] \in Int
      OBVIOUS
    <2>1. F[n] \in Int /\ n + 1 \in 0..CountsLen /\ n + 1 # 0 /\ (n + 1) - 1 = n
      BY <1>0, <1>9
    <2>2. F[n + 1] = F[n] + m[<<"counts", h, n>>]
      BY <1>6, <2>1
    <2>3. m[<<"counts", h, n>>] \in Nat
      <3>1. n + 1 \in 1..CountsLen
        BY <1>0
      <3> QED BY <1>1, <2>1, <3>1
    <2> QED BY <2>1, <2>2, <2>3
  <1>10. Nat \subseteq S
    <2> HIDE DEF S
    <2> QED BY <1>8, <1>9, SetInduction
  <1>11. \A n \in 0..CountsLen : F[n] \in Int
    BY <1>0, <1>10
  <1>12. F \in [0..CountsLen -> Int]
    BY <1>6, <1>11
  <1> QED BY <1>6, <1>7, <1>12 DEF Sums

\* From m to q, count b of h grows by d and no other one changes.
Grows(m, q, h, b, d) ==
  \A n \in Buckets : q[<<"counts", h, n>>] = m[<<"counts", h, n>>] + (IF n = b THEN d ELSE 0)

(***************************************************************************)
(* How a count changes the sum.  It grows by what a count grows by.        *)
(***************************************************************************)
LEMMA SumGrows ==
  ASSUME NEW m \in [Cells -> Nat], NEW q \in [Cells -> Nat], NEW h \in Hists,
         NEW b \in Nat, NEW d \in Int, Grows(m, q, h, b, d)
  PROVE  Recorded(q, h) = Recorded(m, h) + (IF b < CountsLen THEN d ELSE 0)
  <1>0. CountsLen \in Nat
    BY MeasurementsAssumption
  <1>1. PICK f : Sums(f, m, h) /\ f \in [0..CountsLen -> Int] /\ Recorded(m, h) = f[CountsLen]
    BY SumsExist
  <1>2. PICK g : Sums(g, q, h) /\ g \in [0..CountsLen -> Int] /\ Recorded(q, h) = g[CountsLen]
    BY SumsExist
  <1> DEFINE S == {n \in Nat : n <= CountsLen => g[n] = f[n] + (IF b < n THEN d ELSE 0)}
  <1>3. 0 \in S
    <2>1. f[0] = 0 /\ g[0] = 0
      BY <1>0, <1>1, <1>2 DEF Sums
    <2> QED BY <2>1
  <1>4. ASSUME NEW n \in Nat, n \in S PROVE n + 1 \in S
    <2> SUFFICES ASSUME n + 1 <= CountsLen
                 PROVE  g[n + 1] = f[n + 1] + (IF b < n + 1 THEN d ELSE 0)
      OBVIOUS
    <2>1. g[n] = f[n] + (IF b < n THEN d ELSE 0)
      BY <1>0, <1>4
    <2>2. /\ n + 1 \in 0..CountsLen /\ n \in 0..CountsLen /\ n + 1 # 0 /\ (n + 1) - 1 = n
          /\ n \in Buckets
      BY <1>0 DEF Buckets
    <2>3. f[n + 1] = f[n] + m[<<"counts", h, n>>]
      BY <1>1, <2>2 DEF Sums
    <2>4. g[n + 1] = g[n] + q[<<"counts", h, n>>]
      BY <1>2, <2>2 DEF Sums
    <2>5. q[<<"counts", h, n>>] = m[<<"counts", h, n>>] + (IF n = b THEN d ELSE 0)
      BY <2>2 DEF Grows
    <2>6. m[<<"counts", h, n>>] \in Nat /\ f[n] \in Int
      <3>1. <<"counts", h, n>> \in Cells
        BY <2>2 DEF Cells, HistCells
      <3> QED BY <1>1, <2>2, <3>1
    <2> QED BY <2>1, <2>3, <2>4, <2>5, <2>6
  <1>5. Nat \subseteq S
    <2> HIDE DEF S
    <2> QED BY <1>3, <1>4, SetInduction
  <1>6. CountsLen \in S
    BY <1>0, <1>5
  <1> QED BY <1>0, <1>1, <1>2, <1>6

(***************************************************************************)
(* A histogram without counts adds up to 0.                                *)
(***************************************************************************)
LEMMA SumOfNone ==
  ASSUME NEW m \in [Cells -> Nat], NEW h \in Hists, \A n \in Buckets : m[<<"counts", h, n>>] = 0
  PROVE  Recorded(m, h) = 0
  <1>0. CountsLen \in Nat
    BY MeasurementsAssumption
  <1>1. PICK f : Sums(f, m, h) /\ f \in [0..CountsLen -> Int] /\ Recorded(m, h) = f[CountsLen]
    BY SumsExist
  <1> DEFINE S == {n \in Nat : n <= CountsLen => f[n] = 0}
  <1>2. 0 \in S
    BY <1>0, <1>1 DEF Sums
  <1>3. ASSUME NEW n \in Nat, n \in S PROVE n + 1 \in S
    <2> SUFFICES ASSUME n + 1 <= CountsLen PROVE f[n + 1] = 0
      OBVIOUS
    <2>1. /\ n + 1 \in 0..CountsLen /\ n + 1 # 0 /\ (n + 1) - 1 = n /\ n \in Buckets
      BY <1>0 DEF Buckets
    <2>2. f[n + 1] = f[n] + m[<<"counts", h, n>>]
      BY <1>1, <2>1 DEF Sums
    <2> QED BY <1>0, <1>3, <2>1, <2>2
  <1>4. Nat \subseteq S
    <2> HIDE DEF S
    <2> QED BY <1>2, <1>3, SetInduction
  <1>5. CountsLen \in S
    BY <1>0, <1>4
  <1> QED BY <1>0, <1>1, <1>5

-----------------------------------------------------------------------------
(* Worker 0 alone *)

(***************************************************************************)
(* As long as the other workers have not begun, worker 0 is between two    *)
(* operations, after n instructions of one's bookkeeping, or after n       *)
(* instructions of the hiccup line.  A histogram's total is one behind its *)
(* counts between the two additions of hdr_record_value, and ops_cnt of an *)
(* operation is one ahead of its histogram before them.                    *)
(***************************************************************************)
Alone == \A k \in Workers \ {0} : left[k] = OpsPerThread

NotStarted == \A k \in Workers : left[k] = OpsPerThread => prog[k] = << >>

Due(o, n, h) ==
  IF (n = 4 /\ h = "hdr_") \/ (n = 6 /\ h = "hdr_last_1s_") \/ (n = 8 /\ h = o) THEN 1 ELSE 0

Owed(o, t, n, h) == IF h = o /\ n \in 2..7 /\ Bucket(t) < CountsLen THEN 1 ELSE 0

Balanced(o, t, n) ==
  /\ \A h \in Hists : RecordedIn(h) = mem[<<"total", h, 0>>] + Due(o, n, h)
  /\ \A h \in Kinds : RecordedIn(h) + Owed(o, t, n, h) <= mem[<<"ops_cnt", h, 0>>]

Even(hists) ==
  /\ \A h \in hists : RecordedIn(h) = mem[<<"total", h, 0>>]
  /\ \A h \in Kinds : RecordedIn(h) <= mem[<<"ops_cnt", h, 0>>]

\* A cell of hdr_last_1s_ is cleared, or its turn is still to come.
Clearing(n) ==
  \A c \in ResetCells : mem[c] = 0 \/ \E i \in (n + 1)..Len(Hiccup) : Hiccup[i] = Set(c, 0)

Resting == prog[0] = << >> /\ Even(Hists)

Working(o, t, n) ==
  /\ n < Len(Account(o, t))
  /\ prog[0] = SubSeq(Account(o, t), n + 1, Len(Account(o, t)))
  /\ Balanced(o, t, n)

Lining(n) ==
  /\ n < Len(Hiccup)
  /\ prog[0] = SubSeq(Hiccup, n + 1, Len(Hiccup))
  /\ Even(Hists \ {"hdr_last_1s_"})
  /\ Clearing(n)

Phase ==
  \/ Resting
  \/ \E o \in Kinds, t \in Latencies, n \in Nat : Working(o, t, n)
  \/ \E n \in Nat : Lining(n)

Sequential ==
  /\ half[0] = "store" => reg[0] = mem[Head(prog[0]).cell]
  /\ \A c \in Cells \ ResetCells : mem[c] = issued[c]
  /\ Phase

ExactInv == NotStarted /\ (Alone => Sequential)

\* What is left of a list of instructions when n of them are done.
LEMMA Rest ==
  ASSUME NEW S, NEW list \in Seq(S), NEW n \in 0..Len(list)
  PROVE  /\ n = Len(list) <=> SubSeq(list, n + 1, Len(list)) = << >>
         /\ n < Len(list) =>
              /\ Head(SubSeq(list, n + 1, Len(list))) = list[n + 1]
              /\ Tail(SubSeq(list, n + 1, Len(list))) = SubSeq(list, (n + 1) + 1, Len(list))
         /\ Len(SubSeq(list, n + 1, Len(list))) = Len(list) - n
  <1> DEFINE r == SubSeq(list, n + 1, Len(list))
             q == SubSeq(list, (n + 1) + 1, Len(list))
  <1>1. Len(list) \in Nat /\ n \in Nat /\ \A i \in 1..Len(list) : list[i] \in S
    OBVIOUS
  <1>2. /\ r \in Seq(S) /\ Len(r) = Len(list) - n
        /\ \A i \in 1..(Len(list) - n) : r[i] = list[n + i]
    <2>1. /\ r \in Seq(S) /\ Len(r) = IF n + 1 <= Len(list) THEN Len(list) - (n + 1) + 1 ELSE 0
          /\ \A i \in 1..(Len(list) - (n + 1) + 1) : r[i] = list[(n + 1) + i - 1]
      BY <1>1, SubSeqProperties
    <2> HIDE DEF r
    <2> QED BY <1>1, <2>1
  <1>3. ASSUME n < Len(list)
        PROVE  /\ q \in Seq(S) /\ Len(q) = Len(list) - n - 1
               /\ \A i \in 1..(Len(list) - n - 1) : q[i] = list[n + 1 + i]
    <2>1. /\ q \in Seq(S)
          /\ Len(q) = IF (n + 1) + 1 <= Len(list) THEN Len(list) - ((n + 1) + 1) + 1 ELSE 0
          /\ \A i \in 1..(Len(list) - ((n + 1) + 1) + 1) : q[i] = list[((n + 1) + 1) + i - 1]
      BY <1>1, SubSeqProperties
    <2> HIDE DEF q
    <2>2. Len(q) = Len(list) - n - 1
      BY <1>1, <1>3, <2>1
    <2>3. ASSUME NEW i \in 1..(Len(list) - n - 1) PROVE q[i] = list[n + 1 + i]
      <3>1. i \in 1..(Len(list) - ((n + 1) + 1) + 1) /\ ((n + 1) + 1) + i - 1 = n + 1 + i
        BY <1>1
      <3> QED BY <2>1, <3>1
    <2> QED BY <2>1, <2>2, <2>3
  <1> HIDE DEF r, q
  <1>4. n = Len(list) <=> r = << >>
    BY <1>1, <1>2
  <1>5. ASSUME n < Len(list) PROVE Head(r) = list[n + 1] /\ Tail(r) = q
    <2>1. r # << >> /\ Head(r) = r[1] /\ r[1] = list[n + 1]
      BY <1>1, <1>2, <1>5
    <2>2. /\ Tail(r) \in Seq(S) /\ Len(Tail(r)) = Len(r) - 1
          /\ \A i \in 1..Len(Tail(r)) : Tail(r)[i] = r[i + 1]
      BY <1>2, <2>1, HeadTailProperties
    <2>3. Len(Tail(r)) = Len(q) /\ \A i \in 1..Len(q) : Tail(r)[i] = q[i]
      <3>1. Len(q) = Len(list) - n - 1 /\ Len(Tail(r)) = Len(list) - n - 1
        BY <1>1, <1>2, <1>3, <1>5, <2>2
      <3>2. ASSUME NEW i \in 1..Len(q) PROVE Tail(r)[i] = q[i]
        <4>1. Tail(r)[i] = r[i + 1] /\ q[i] = list[n + 1 + i]
          BY <1>3, <1>5, <2>2, <3>1
        <4>2. i + 1 \in 1..(Len(list) - n) /\ n + (i + 1) = n + 1 + i
          BY <1>1, <3>1
        <4>3. r[i + 1] = list[n + (i + 1)]
          BY <1>2, <4>2
        <4> QED BY <4>1, <4>2, <4>3
      <3> QED BY <3>1, <3>2
    <2>4. Tail(r) = q
      BY <1>3, <1>5, <2>2, <2>3, SeqEqual
    <2> QED BY <2>1, <2>4
  <1> QED BY <1>2, <1>4, <1>5 DEF r, q

\* Two lists, one after the other.
LEMMA Joined ==
  ASSUME NEW S, NEW x \in Seq(S), NEW y \in Seq(S)
  PROVE  /\ x \o y \in Seq(S) /\ Len(x \o y) = Len(x) + Len(y)
         /\ \A i \in 1..Len(x) : (x \o y)[i] = x[i]
         /\ \A i \in 1..Len(y) : (x \o y)[Len(x) + i] = y[i]
  <1> PICK z : z = x \o y
    OBVIOUS
  <1>1. /\ z \in Seq(S) /\ Len(z) = Len(x) + Len(y)
        /\ \A i \in 1..(Len(x) + Len(y)) : z[i] = IF i <= Len(x) THEN x[i] ELSE y[i - Len(x)]
    BY ConcatProperties, Zenon
  <1>2. Len(x) \in Nat /\ Len(y) \in Nat
    BY LenProperties
  <1>3. \A i \in 1..Len(x) : z[i] = x[i]
    BY <1>1, <1>2
  <1>4. ASSUME NEW i \in 1..Len(y) PROVE z[Len(x) + i] = y[i]
    <2>1. Len(x) + i \in 1..(Len(x) + Len(y)) /\ ~(Len(x) + i <= Len(x))
          /\ (Len(x) + i) - Len(x) = i
      BY <1>2
    <2> QED BY <1>1, <2>1
  <1> QED BY <1>1, <1>3, <1>4

\* The bookkeeping of an operation, instruction by instruction.
LEMMA AccountParts ==
  ASSUME NEW o \in Kinds, NEW t \in Latencies
  PROVE  /\ Len(Account(o, t)) = IF Bucket(t) < CountsLen THEN 9 ELSE 3
         /\ Account(o, t)[1] = Add(<<"ops_time", o, 0>>, t)
         /\ Account(o, t)[2] = Add(<<"ops_cnt", o, 0>>, 1)
         /\ Account(o, t)[3] = Qps("inc")
         /\ Bucket(t) < CountsLen =>
              /\ Account(o, t)[4] = Add(<<"counts", "hdr_", Bucket(t)>>, 1)
              /\ Account(o, t)[5] = Add(<<"total", "hdr_", 0>>, 1)
              /\ Account(o, t)[6] = Add(<<"counts", "hdr_last_1s_", Bucket(t)>>, 1)
              /\ Account(o, t)[7] = Add(<<"total", "hdr_last_1s_", 0>>, 1)
              /\ Account(o, t)[8] = Add(<<"counts", o, Bucket(t)>>, 1)
              /\ Account(o, t)[9] = Add(<<"total", o, 0>>, 1)
  <1> PICK a1 : a1 = Add(<<"ops_time", o, 0>>, t)  OBVIOUS
  <1> PICK a2 : a2 = Add(<<"ops_cnt", o, 0>>, 1)  OBVIOUS
  <1> PICK a3 : a3 = Qps("inc")  OBVIOUS
  <1> PICK a4 : a4 = Add(<<"counts", "hdr_", Bucket(t)>>, 1)  OBVIOUS
  <1> PICK a5 : a5 = Add(<<"total", "hdr_", 0>>, 1)  OBVIOUS
  <1> PICK a6 : a6 = Add(<<"counts", "hdr_last_1s_", Bucket(t)>>, 1)  OBVIOUS
  <1> PICK a7 : a7 = Add(<<"total", "hdr_last_1s_", 0>>, 1)  OBVIOUS
  <1> PICK a8 : a8 = Add(<<"counts", o, Bucket(t)>>, 1)  OBVIOUS
  <1> PICK a9 : a9 = Add(<<"total", o, 0>>, 1)  OBVIOUS
  <1> DEFINE S == {a1, a2, a3, a4, a5, a6, a7, a8, a9}
  <1>0. /\ <<a1, a2>> \in Seq(S) /\ <<a3>> \in Seq(S) /\ <<a4, a5>> \in Seq(S)
        /\ <<a6, a7>> \in Seq(S) /\ <<a8, a9>> \in Seq(S) /\ << >> \in Seq(S)
    OBVIOUS
  <1> HIDE DEF S
  <1>1. CASE Bucket(t) < CountsLen
    <2> PICK x : x = <<a3>> \o <<a4, a5>>  OBVIOUS
    <2> PICK y : y = x \o <<a6, a7>>  OBVIOUS
    <2> PICK z : z = y \o <<a8, a9>>  OBVIOUS
    <2> PICK w : w = <<a1, a2>> \o z  OBVIOUS
    <2>1. Account(o, t) = w
      BY <1>1 DEF Account, RecordTime, Record
    <2>2. x \in Seq(S) /\ Len(x) = 3 /\ x[1] = a3 /\ x[2] = a4 /\ x[3] = a5
      <3>1. /\ x \in Seq(S) /\ Len(x) = Len(<<a3>>) + Len(<<a4, a5>>)
            /\ \A i \in 1..Len(<<a3>>) : x[i] = <<a3>>[i]
            /\ \A i \in 1..Len(<<a4, a5>>) : x[Len(<<a3>>) + i] = <<a4, a5>>[i]
        BY <1>0, Joined
      <3> QED BY <3>1
    <2>3. /\ y \in Seq(S) /\ Len(y) = 5 /\ y[1] = a3 /\ y[2] = a4 /\ y[3] = a5
          /\ y[4] = a6 /\ y[5] = a7
      <3>1. /\ y \in Seq(S) /\ Len(y) = Len(x) + Len(<<a6, a7>>)
            /\ \A i \in 1..Len(x) : y[i] = x[i]
            /\ \A i \in 1..Len(<<a6, a7>>) : y[Len(x) + i] = <<a6, a7>>[i]
        BY <1>0, <2>2, Joined
      <3> QED BY <2>2, <3>1
    <2>4. /\ z \in Seq(S) /\ Len(z) = 7 /\ z[1] = a3 /\ z[2] = a4 /\ z[3] = a5
          /\ z[4] = a6 /\ z[5] = a7 /\ z[6] = a8 /\ z[7] = a9
      <3>1. /\ z \in Seq(S) /\ Len(z) = Len(y) + Len(<<a8, a9>>)
            /\ \A i \in 1..Len(y) : z[i] = y[i]
            /\ \A i \in 1..Len(<<a8, a9>>) : z[Len(y) + i] = <<a8, a9>>[i]
        BY <1>0, <2>3, Joined
      <3> QED BY <2>3, <3>1
    <2>5. /\ Len(w) = 9 /\ w[1] = a1 /\ w[2] = a2 /\ w[3] = a3 /\ w[4] = a4 /\ w[5] = a5
          /\ w[6] = a6 /\ w[7] = a7 /\ w[8] = a8 /\ w[9] = a9
      <3>1. /\ Len(w) = Len(<<a1, a2>>) + Len(z)
            /\ \A i \in 1..Len(<<a1, a2>>) : w[i] = <<a1, a2>>[i]
            /\ \A i \in 1..Len(z) : w[Len(<<a1, a2>>) + i] = z[i]
        BY <1>0, <2>4, Joined
      <3> QED BY <2>4, <3>1
    <2> QED BY <1>1, <2>1, <2>5
  <1>2. CASE ~(Bucket(t) < CountsLen)
    <2> PICK w : w = <<a1, a2>> \o <<a3>>  OBVIOUS
    <2>1. Account(o, t) = <<a1, a2>> \o (((<<a3>> \o << >>) \o << >>) \o << >>)
      BY <1>2 DEF Account, RecordTime, Record
    <2>2. <<a3>> \o << >> = <<a3>>
      BY <1>0, ConcatEmptySeq
    <2>3. Account(o, t) = w
      BY <2>1, <2>2
    <2>4. Len(w) = 3 /\ w[1] = a1 /\ w[2] = a2 /\ w[3] = a3
      <3>1. /\ Len(w) = Len(<<a1, a2>>) + Len(<<a3>>)
            /\ \A i \in 1..Len(<<a1, a2>>) : w[i] = <<a1, a2>>[i]
            /\ \A i \in 1..Len(<<a3>>) : w[Len(<<a1, a2>>) + i] = <<a3>>[i]
        BY <1>0, Joined
      <3> QED BY <3>1
    <2> QED BY <1>2, <2>3, <2>4
  <1> QED BY <1>1, <1>2

\* The hiccup line clears every cell of hdr_last_1s_.
LEMMA HiccupClears ==
  \A c \in ResetCells : \E i \in 1..Len(Hiccup) : Hiccup[i] = Set(c, 0)
  <1> SUFFICES ASSUME NEW c \in ResetCells PROVE \E i \in 1..Len(Hiccup) : Hiccup[i] = Set(c, 0)
    OBVIOUS
  <1> DEFINE first  == <<Qps("print")>>
             total  == <<Set(<<"total", "hdr_last_1s_", 0>>, 0)>>
             counts == [j \in 1..CountsLen |-> Set(<<"counts", "hdr_last_1s_", j - 1>>, 0)]
             last   == <<Qps("zero")>>
             any    == {Qps("print"), Qps("zero")} \cup {Set(d, 0) : d \in Cells}
  <1>0. CountsLen \in Nat
    BY MeasurementsAssumption
  <1>1. /\ first \in Seq(any) /\ Len(first) = 1 /\ last \in Seq(any) /\ Len(last) = 1
    OBVIOUS
  <1>2. total \in Seq(any) /\ Len(total) = 1 /\ total[1] = Set(<<"total", "hdr_last_1s_", 0>>, 0)
    <2>1. <<"total", "hdr_last_1s_", 0>> \in Cells
      BY DEF Cells, HistCells, Hists
    <2> QED BY <2>1
  <1>3. /\ counts \in Seq(any) /\ Len(counts) = CountsLen
        /\ \A j \in 1..CountsLen : counts[j] = Set(<<"counts", "hdr_last_1s_", j - 1>>, 0)
    <2>1. ASSUME NEW j \in 1..CountsLen PROVE <<"counts", "hdr_last_1s_", j - 1>> \in Cells
      <3>1. j - 1 \in Buckets
        BY <1>0 DEF Buckets
      <3> QED BY <3>1 DEF Cells, HistCells, Hists
    <2>2. counts \in [1..CountsLen -> any]
      BY <2>1
    <2>3. \A j \in 1..CountsLen : counts[j] = Set(<<"counts", "hdr_last_1s_", j - 1>>, 0)
      OBVIOUS
    <2> HIDE DEF counts, any
    <2>4. counts \in Seq(any)
      BY <1>0, <2>2, SeqDef
    <2>5. Len(counts) = CountsLen
      BY <1>0, <2>2, <2>4
    <2> QED BY <2>3, <2>4, <2>5
  <1> HIDE DEF first, total, counts, last, any
  <1> DEFINE resets == total \o counts
             front  == first \o resets
             line   == front \o last
  <1>4. /\ resets \in Seq(any) /\ Len(resets) = CountsLen + 1 /\ resets[1] = total[1]
        /\ \A j \in 1..CountsLen : resets[j + 1] = counts[j]
    <2>0. total \in Seq(any) /\ counts \in Seq(any)
      BY <1>2, <1>3
    <2>1. /\ resets \in Seq(any) /\ Len(resets) = Len(total) + Len(counts)
          /\ \A i \in 1..Len(total) : resets[i] = total[i]
          /\ \A i \in 1..Len(counts) : resets[Len(total) + i] = counts[i]
      BY <2>0, Joined
    <2> HIDE DEF resets
    <2> QED BY <1>0, <1>2, <1>3, <2>1
  <1> HIDE DEF resets
  <1>5. /\ front \in Seq(any) /\ Len(front) = CountsLen + 2
        /\ \A j \in 1..(CountsLen + 1) : front[j + 1] = resets[j]
    <2>0. first \in Seq(any) /\ resets \in Seq(any)
      BY <1>1, <1>4
    <2>1. /\ front \in Seq(any) /\ Len(front) = Len(first) + Len(resets)
          /\ \A i \in 1..Len(resets) : front[Len(first) + i] = resets[i]
      BY <2>0, Joined
    <2> HIDE DEF front
    <2> QED BY <1>0, <1>1, <1>4, <2>1
  <1> HIDE DEF front
  <1>7. /\ Len(line) = CountsLen + 3
        /\ \A j \in 1..(CountsLen + 1) : line[j + 1] = resets[j]
    <2>1. /\ Len(line) = Len(front) + Len(last)
          /\ \A i \in 1..Len(front) : line[i] = front[i]
      BY <1>1, <1>5, Joined, Zenon
    <2> HIDE DEF line
    <2> QED BY <1>0, <1>1, <1>5, <2>1
  <1> HIDE DEF line
  <1>8. Hiccup = line
    BY DEF Hiccup, Reset, line, front, resets, first, total, counts, last
  <1>9. CASE c = <<"total", "hdr_last_1s_", 0>>
    <2>1. Hiccup[1 + 1] = Set(c, 0) /\ 1 + 1 \in 1..Len(Hiccup)
      BY <1>0, <1>2, <1>4, <1>7, <1>8, <1>9
    <2> QED BY <2>1
  <1>10. ASSUME NEW b \in Buckets, c = <<"counts", "hdr_last_1s_", b>>
         PROVE  \E i \in 1..Len(Hiccup) : Hiccup[i] = Set(c, 0)
    <2>1. b + 1 \in 1..CountsLen /\ (b + 1) - 1 = b /\ (b + 1) + 1 \in 1..(CountsLen + 1)
      BY <1>0 DEF Buckets
    <2>2. counts[b + 1] = Set(c, 0)
      BY <1>3, <1>10, <2>1
    <2>3. Hiccup[((b + 1) + 1) + 1] = Set(c, 0) /\ ((b + 1) + 1) + 1 \in 1..Len(Hiccup)
      BY <1>0, <1>4, <1>7, <1>8, <2>1, <2>2
    <2> QED BY <2>3
  <1>11. c = <<"total", "hdr_last_1s_", 0>> \/ \E b \in Buckets : c = <<"counts", "hdr_last_1s_", b>>
    BY DEF ResetCells, HistCells
  <1> QED BY <1>9, <1>10, <1>11

\* From m to q, cell c becomes v and no other one changes.
Changes(m, q, c, v) == \A d \in Cells : m[d] \in Nat /\ q[d] = IF d = c THEN v ELSE m[d]

(***************************************************************************)
(* A changed cell changes the sum of its own histogram, if it is a count.  *)
(***************************************************************************)
LEMMA CountChanges ==
  ASSUME NEW m \in [Cells -> Nat], NEW q \in [Cells -> Nat], NEW c \in Cells, NEW v \in Nat,
         Changes(m, q, c, v), NEW h \in Hists
  PROVE  /\ Recorded(m, h) \in Int /\ Recorded(q, h) \in Int
         /\ (\A b \in Buckets : c # <<"counts", h, b>>) => Recorded(q, h) = Recorded(m, h)
         /\ (\E b \in Buckets : c = <<"counts", h, b>>) =>
              Recorded(q, h) = Recorded(m, h) + (v - m[c])
  <1>1. Recorded(m, h) \in Int /\ Recorded(q, h) \in Int
    <2>0. CountsLen \in 0..CountsLen
      BY MeasurementsAssumption
    <2>1. PICK f : f \in [0..CountsLen -> Int] /\ Recorded(m, h) = f[CountsLen]
      BY SumsExist
    <2>2. PICK g : g \in [0..CountsLen -> Int] /\ Recorded(q, h) = g[CountsLen]
      BY SumsExist
    <2> QED BY <2>0, <2>1, <2>2
  <1>2. \A b \in Buckets : <<"counts", h, b>> \in Cells
    BY DEF Cells, HistCells
  <1>3. ASSUME \A b \in Buckets : c # <<"counts", h, b>>
        PROVE  Recorded(q, h) = Recorded(m, h)
    <2>1. Grows(m, q, h, 0, 0)
      BY <1>2, <1>3 DEF Grows, Changes
    <2>2. Recorded(q, h) = Recorded(m, h) + (IF 0 < CountsLen THEN 0 ELSE 0)
      <3>1. 0 \in Nat /\ 0 \in Int
        OBVIOUS
      <3> QED BY <2>1, <3>1, SumGrows
    <2> QED BY <1>1, <2>2
  <1>4. ASSUME NEW b \in Buckets, c = <<"counts", h, b>>
        PROVE  Recorded(q, h) = Recorded(m, h) + (v - m[c])
    <2> PICK d : d = v - m[c]
      OBVIOUS
    <2>1. d \in Int /\ b \in Nat /\ b < CountsLen
      BY MeasurementsAssumption DEF Buckets, Changes
    <2>2. ASSUME NEW n \in Buckets
          PROVE  q[<<"counts", h, n>>] = m[<<"counts", h, n>>] + (IF n = b THEN d ELSE 0)
      <3>1. CASE n = b
        BY <1>2, <1>4, <3>1 DEF Changes
      <3>2. CASE n # b
        <4>1. <<"counts", h, n>> # c
          BY <1>4, <3>2
        <4> QED BY <1>2, <3>2, <4>1 DEF Changes
      <3> QED BY <3>1, <3>2
    <2>3. Grows(m, q, h, b, d)
      BY <2>2 DEF Grows, Changes
    <2>4. Recorded(q, h) = Recorded(m, h) + (IF b < CountsLen THEN d ELSE 0)
      BY <2>1, <2>3, SumGrows
    <2> QED BY <2>1, <2>4
  <1> QED BY <1>1, <1>3, <1>4

(***************************************************************************)
(* What one cell's change does to the sums, the totals and the counts of   *)
(* the operations.                                                         *)
(***************************************************************************)
LEMMA CellChanges ==
  ASSUME mem \in [Cells -> Nat], NEW c \in Cells, NEW v \in Nat, mem' = [mem EXCEPT ![c] = v]
  PROVE  /\ mem' \in [Cells -> Nat]
         /\ \A h \in Hists :
              /\ RecordedIn(h) \in Int /\ RecordedIn(h)' \in Int
              /\ (\A b \in Buckets : c # <<"counts", h, b>>) => RecordedIn(h)' = RecordedIn(h)
              /\ (\E b \in Buckets : c = <<"counts", h, b>>) =>
                    RecordedIn(h)' = RecordedIn(h) + (v - mem[c])
         /\ \A d \in Cells : mem[d] \in Nat /\ mem'[d] = IF d = c THEN v ELSE mem[d]
  <1>1. PICK m : m = mem
    OBVIOUS
  <1>2. PICK q : q = mem'
    OBVIOUS
  <1>3. m \in [Cells -> Nat] /\ q \in [Cells -> Nat] /\ Changes(m, q, c, v)
    BY <1>1, <1>2 DEF Changes
  <1>4. ASSUME NEW h \in Hists
        PROVE  /\ Recorded(m, h) \in Int /\ Recorded(q, h) \in Int
               /\ (\A b \in Buckets : c # <<"counts", h, b>>) => Recorded(q, h) = Recorded(m, h)
               /\ (\E b \in Buckets : c = <<"counts", h, b>>) =>
                    Recorded(q, h) = Recorded(m, h) + (v - m[c])
    BY <1>3, CountChanges
  <1>5. \A h \in Hists : RecordedIn(h) = Recorded(m, h) /\ RecordedIn(h)' = Recorded(q, h)
    BY <1>1, <1>2 DEF RecordedIn
  <1>6. \A d \in Cells : mem[d] \in Nat /\ mem'[d] = IF d = c THEN v ELSE mem[d]
    OBVIOUS
  <1>7. mem' \in [Cells -> Nat]
    OBVIOUS
  <1> QED BY <1>1, <1>4, <1>5, <1>6, <1>7

\* The cells that the balance is about.
LEMMA BalanceCells ==
  /\ \A h \in Hists : <<"total", h, 0>> \in Cells
  /\ \A h \in Kinds : h \in Hists /\ <<"ops_cnt", h, 0>> \in Cells /\ <<"ops_time", h, 0>> \in Cells
  /\ \A h \in Hists, b \in Buckets : <<"counts", h, b>> \in Cells
  /\ "hdr_" \in Hists /\ "hdr_last_1s_" \in Hists
  /\ "hdr_" \notin Kinds /\ "hdr_last_1s_" \notin Kinds /\ "none" \notin Hists
  BY MeasurementsAssumption DEF Cells, HistCells, TimeCells, CountCells, Hists

\* An instruction, done by worker 0 alone.
Done(i) ==
  /\ i.do = "add" => mem' = [mem EXCEPT ![i.cell] = mem[i.cell] + i.arg]
  /\ i.do = "inc" => mem' = mem

\* What the sums, the totals and the counts grow by.
Growth(rec, tot, cnt) ==
  /\ \A h \in Hists :
       /\ RecordedIn(h) \in Int /\ RecordedIn(h)' = RecordedIn(h) + (IF h = rec THEN 1 ELSE 0)
       /\ mem[<<"total", h, 0>>] \in Nat
       /\ mem'[<<"total", h, 0>>] = mem[<<"total", h, 0>>] + (IF h = tot THEN 1 ELSE 0)
  /\ \A h \in Kinds :
       /\ mem[<<"ops_cnt", h, 0>>] \in Nat
       /\ mem'[<<"ops_cnt", h, 0>>] = mem[<<"ops_cnt", h, 0>>] + (IF h = cnt THEN 1 ELSE 0)

(***************************************************************************)
(* An addition to a count, a total, a count of operations or a time.       *)
(***************************************************************************)
LEMMA AddGrows ==
  ASSUME mem \in [Cells -> Nat], NEW c \in Cells, NEW a \in Nat, Done(Add(c, a))
  PROVE  /\ \A g \in Hists, b \in Buckets : c = <<"counts", g, b>> /\ a = 1 => Growth(g, "none", "none")
         /\ \A g \in Hists : c = <<"total", g, 0>> /\ a = 1 => Growth("none", g, "none")
         /\ \A g \in Kinds : c = <<"ops_cnt", g, 0>> /\ a = 1 => Growth("none", "none", g)
         /\ \A g \in Kinds : c = <<"ops_time", g, 0>> => Growth("none", "none", "none")
  <1>0. "none" \notin Hists /\ "none" \notin Kinds
    BY MeasurementsAssumption DEF Hists
  <1>1. mem' = [mem EXCEPT ![c] = mem[c] + a]
    BY DEF Done, Add
  <1>2. mem[c] \in Nat
    OBVIOUS
  <1>3. PICK v \in Nat : v = mem[c] + a
    BY <1>2
  <1>4. mem' = [mem EXCEPT ![c] = v]
    BY <1>1, <1>3
  <1>5. v - mem[c] = a
    BY <1>2, <1>3
  <1>6. /\ \A h \in Hists :
             /\ RecordedIn(h) \in Int
             /\ (\A b \in Buckets : c # <<"counts", h, b>>) => RecordedIn(h)' = RecordedIn(h)
             /\ (\E b \in Buckets : c = <<"counts", h, b>>) => RecordedIn(h)' = RecordedIn(h) + a
        /\ \A d \in Cells : mem[d] \in Nat /\ mem'[d] = IF d = c THEN mem[c] + a ELSE mem[d]
    BY <1>3, <1>4, <1>5, CellChanges
  <1>7. ASSUME NEW rec, NEW tot, NEW cnt,
               \A h \in Hists : RecordedIn(h)' = RecordedIn(h) + (IF h = rec THEN 1 ELSE 0),
               \A h \in Hists : <<"total", h, 0>> = c <=> h = tot,
               \A h \in Kinds : <<"ops_cnt", h, 0>> = c <=> h = cnt,
               tot \in Hists \/ cnt \in Kinds => a = 1
        PROVE  Growth(rec, tot, cnt)
    <2>1. ASSUME NEW h \in Hists
          PROVE  /\ mem[<<"total", h, 0>>] \in Nat
                 /\ mem'[<<"total", h, 0>>] = mem[<<"total", h, 0>>] + (IF h = tot THEN 1 ELSE 0)
      <3>1. <<"total", h, 0>> \in Cells
        BY BalanceCells
      <3>2. mem[<<"total", h, 0>>] \in Nat
        BY <1>6, <3>1
      <3>3. CASE h = tot
        <4>1. <<"total", h, 0>> = c /\ a = 1
          BY <1>7, <3>3
        <4> QED BY <1>6, <3>1, <3>2, <3>3, <4>1
      <3>4. CASE h # tot
        <4>1. <<"total", h, 0>> # c
          BY <1>7, <3>4
        <4> QED BY <1>6, <3>1, <3>2, <3>4, <4>1
      <3> QED BY <3>3, <3>4
    <2>2. ASSUME NEW h \in Kinds
          PROVE  /\ mem[<<"ops_cnt", h, 0>>] \in Nat
                 /\ mem'[<<"ops_cnt", h, 0>>] = mem[<<"ops_cnt", h, 0>>] + (IF h = cnt THEN 1 ELSE 0)
      <3>1. <<"ops_cnt", h, 0>> \in Cells
        BY BalanceCells
      <3>2. mem[<<"ops_cnt", h, 0>>] \in Nat
        BY <1>6, <3>1
      <3>3. CASE h = cnt
        <4>1. <<"ops_cnt", h, 0>> = c /\ a = 1
          BY <1>7, <3>3
        <4> QED BY <1>6, <3>1, <3>2, <3>3, <4>1
      <3>4. CASE h # cnt
        <4>1. <<"ops_cnt", h, 0>> # c
          BY <1>7, <3>4
        <4> QED BY <1>6, <3>1, <3>2, <3>4, <4>1
      <3> QED BY <3>3, <3>4
    <2> QED BY <1>6, <1>7, <2>1, <2>2 DEF Growth
  <1>8. ASSUME \A h \in Hists, b \in Buckets : c # <<"counts", h, b>>
        PROVE  \A h \in Hists : RecordedIn(h)' = RecordedIn(h) + (IF h = "none" THEN 1 ELSE 0)
    <2> SUFFICES ASSUME NEW h \in Hists
                 PROVE  RecordedIn(h)' = RecordedIn(h) + (IF h = "none" THEN 1 ELSE 0)
      OBVIOUS
    <2>1. RecordedIn(h)' = RecordedIn(h) /\ RecordedIn(h) \in Int /\ h # "none"
      BY <1>0, <1>6, <1>8
    <2> QED BY <2>1
  <1>9. ASSUME NEW g \in Hists, NEW b \in Buckets, c = <<"counts", g, b>>, a = 1
        PROVE  Growth(g, "none", "none")
    <2>1. ASSUME NEW h \in Hists PROVE RecordedIn(h)' = RecordedIn(h) + (IF h = g THEN 1 ELSE 0)
      <3>1. CASE h = g
        BY <1>6, <1>9, <3>1
      <3>2. CASE h # g
        <4>1. \A e \in Buckets : c # <<"counts", h, e>>
          BY <1>9, <3>2
        <4> QED BY <1>6, <3>2, <4>1
      <3> QED BY <3>1, <3>2
    <2>2. /\ \A h \in Hists : <<"total", h, 0>> = c <=> h = "none"
          /\ \A h \in Kinds : <<"ops_cnt", h, 0>> = c <=> h = "none"
      BY <1>0, <1>9
    <2> QED BY <1>0, <1>7, <2>1, <2>2
  <1>10. ASSUME NEW g \in Hists, c = <<"total", g, 0>>, a = 1
         PROVE  Growth("none", g, "none")
    <2>1. \A h \in Hists : RecordedIn(h)' = RecordedIn(h) + (IF h = "none" THEN 1 ELSE 0)
      BY <1>8, <1>10
    <2>2. /\ \A h \in Hists : <<"total", h, 0>> = c <=> h = g
          /\ \A h \in Kinds : <<"ops_cnt", h, 0>> = c <=> h = "none"
      BY <1>0, <1>10
    <2> QED BY <1>7, <1>10, <2>1, <2>2
  <1>11. ASSUME NEW g \in Kinds, c = <<"ops_cnt", g, 0>>, a = 1
         PROVE  Growth("none", "none", g)
    <2>1. \A h \in Hists : RecordedIn(h)' = RecordedIn(h) + (IF h = "none" THEN 1 ELSE 0)
      BY <1>8, <1>11
    <2>2. /\ \A h \in Hists : <<"total", h, 0>> = c <=> h = "none"
          /\ \A h \in Kinds : <<"ops_cnt", h, 0>> = c <=> h = g
      BY <1>0, <1>11
    <2> QED BY <1>7, <1>11, <2>1, <2>2
  <1>12. ASSUME NEW g \in Kinds, c = <<"ops_time", g, 0>>
         PROVE  Growth("none", "none", "none")
    <2>1. \A h \in Hists : RecordedIn(h)' = RecordedIn(h) + (IF h = "none" THEN 1 ELSE 0)
      BY <1>8, <1>12
    <2>2. /\ \A h \in Hists : <<"total", h, 0>> = c <=> h = "none"
          /\ \A h \in Kinds : <<"ops_cnt", h, 0>> = c <=> h = "none"
      BY <1>0, <1>12
    <2> QED BY <1>0, <1>7, <2>1, <2>2
  <1> QED BY <1>9, <1>10, <1>11, <1>12

(***************************************************************************)
(* A growth by which the balance of an operation moves on.                 *)
(***************************************************************************)
LEMMA BalanceShifts ==
  ASSUME NEW o \in Kinds, NEW t \in Latencies, NEW n \in Nat, Balanced(o, t, n),
         NEW rec, NEW tot, NEW cnt, Growth(rec, tot, cnt),
         \A h \in Hists : Due(o, n + 1, h) + (IF h = tot THEN 1 ELSE 0)
                            = Due(o, n, h) + (IF h = rec THEN 1 ELSE 0),
         \A h \in Kinds : Owed(o, t, n + 1, h) + (IF h = rec THEN 1 ELSE 0)
                            <= Owed(o, t, n, h) + (IF h = cnt THEN 1 ELSE 0)
  PROVE  Balanced(o, t, n + 1)'
  <1> DEFINE r(h) == IF h = rec THEN 1 ELSE 0
             s(h) == IF h = tot THEN 1 ELSE 0
             k(h) == IF h = cnt THEN 1 ELSE 0
  <1>1. \A h : r(h) \in Nat /\ s(h) \in Nat /\ k(h) \in Nat
    OBVIOUS
  <1>2. \A h : /\ Due(o, n, h) \in Nat /\ Due(o, n + 1, h) \in Nat
               /\ Owed(o, t, n, h) \in Nat /\ Owed(o, t, n + 1, h) \in Nat
    BY DEF Due, Owed
  <1>3. /\ \A h \in Hists :
             /\ RecordedIn(h) \in Int /\ RecordedIn(h)' = RecordedIn(h) + r(h)
             /\ mem[<<"total", h, 0>>] \in Nat
             /\ mem'[<<"total", h, 0>>] = mem[<<"total", h, 0>>] + s(h)
        /\ \A h \in Kinds :
             /\ mem[<<"ops_cnt", h, 0>>] \in Nat
             /\ mem'[<<"ops_cnt", h, 0>>] = mem[<<"ops_cnt", h, 0>>] + k(h)
    BY DEF Growth
  <1>4. /\ \A h \in Hists : Due(o, n + 1, h) + s(h) = Due(o, n, h) + r(h)
        /\ \A h \in Kinds : Owed(o, t, n + 1, h) + r(h) <= Owed(o, t, n, h) + k(h)
    OBVIOUS
  <1>5. /\ \A h \in Hists : RecordedIn(h) = mem[<<"total", h, 0>>] + Due(o, n, h)
        /\ \A h \in Kinds : RecordedIn(h) + Owed(o, t, n, h) <= mem[<<"ops_cnt", h, 0>>]
    BY DEF Balanced
  <1> HIDE DEF r, s, k
  <1>6. ASSUME NEW h \in Hists
        PROVE  RecordedIn(h)' = mem'[<<"total", h, 0>>] + Due(o, n + 1, h)
    BY <1>1, <1>2, <1>3, <1>4, <1>5
  <1>7. ASSUME NEW h \in Kinds
        PROVE  RecordedIn(h)' + Owed(o, t, n + 1, h) <= mem'[<<"ops_cnt", h, 0>>]
    <2>1. h \in Hists
      BY BalanceCells
    <2>2. /\ RecordedIn(h) \in Int /\ RecordedIn(h)' = RecordedIn(h) + r(h)
          /\ mem[<<"ops_cnt", h, 0>>] \in Nat
          /\ mem'[<<"ops_cnt", h, 0>>] = mem[<<"ops_cnt", h, 0>>] + k(h)
      BY <1>3, <2>1
    <2>3. /\ Owed(o, t, n + 1, h) + r(h) <= Owed(o, t, n, h) + k(h)
          /\ RecordedIn(h) + Owed(o, t, n, h) <= mem[<<"ops_cnt", h, 0>>]
      BY <1>4, <1>5
    <2> QED BY <1>1, <1>2, <2>2, <2>3
  <1>8. /\ \A h \in Hists : RecordedIn(h)' = mem'[<<"total", h, 0>>] + Due(o, n + 1, h)
        /\ \A h \in Kinds : RecordedIn(h)' + Owed(o, t, n + 1, h) <= mem'[<<"ops_cnt", h, 0>>]
    BY <1>6, <1>7
  <1> QED BY <1>8, Zenon DEF Balanced, Hists, Due, Owed

(***************************************************************************)
(* Worker 0 alone adds what it issued: the balance of an operation moves   *)
(* on by one instruction.                                                  *)
(***************************************************************************)
LEMMA BalanceMoves ==
  ASSUME mem \in [Cells -> Nat], NEW o \in Kinds, NEW t \in Latencies, NEW n \in Nat,
         n < Len(Account(o, t)), Balanced(o, t, n), Done(Account(o, t)[n + 1])
  PROVE  Balanced(o, t, n + 1)'
  <1>0. t \in Nat /\ Bucket(t) \in Nat /\ CountsLen \in Nat
    BY MeasurementsAssumption
  <1>1. n \in 0..8 /\ (n > 2 => Bucket(t) < CountsLen /\ Bucket(t) \in Buckets)
    <2>1. Len(Account(o, t)) = IF Bucket(t) < CountsLen THEN 9 ELSE 3
      BY AccountParts
    <2> QED BY <1>0, <2>1 DEF Buckets
  <1>2. CASE n = 0
    <2>1. n + 1 = 1
      BY <1>1, <1>2
    <2>2. Account(o, t)[1] = Add(<<"ops_time", o, 0>>, t)
      BY <2>1, AccountParts
    <2>3. Done(Add(<<"ops_time", o, 0>>, t)) /\ <<"ops_time", o, 0>> \in Cells
      BY <2>1, <2>2, BalanceCells
    <2>4. Growth("none", "none", "none")
      BY <1>0, <2>1, <2>3, AddGrows, BalanceCells
    <2>5. \A h \in Hists : Due(o, n + 1, h) + (IF h = "none" THEN 1 ELSE 0)
                             = Due(o, n, h) + (IF h = "none" THEN 1 ELSE 0)
      BY <1>2, BalanceCells DEF Due
    <2>6. \A h \in Kinds : Owed(o, t, n + 1, h) + (IF h = "none" THEN 1 ELSE 0)
                             <= Owed(o, t, n, h) + (IF h = "none" THEN 1 ELSE 0)
      BY <1>2, <2>1, BalanceCells DEF Owed
    <2> QED BY <2>4, <2>5, <2>6, BalanceShifts
  <1>3. CASE n = 1
    <2>1. n + 1 = 2
      BY <1>1, <1>3
    <2>2. Account(o, t)[2] = Add(<<"ops_cnt", o, 0>>, 1)
      BY <2>1, AccountParts
    <2>3. Done(Add(<<"ops_cnt", o, 0>>, 1)) /\ <<"ops_cnt", o, 0>> \in Cells
      BY <2>1, <2>2, BalanceCells
    <2>4. Growth("none", "none", o)
      BY <1>0, <2>1, <2>3, AddGrows, BalanceCells
    <2>5. \A h \in Hists : Due(o, n + 1, h) + (IF h = "none" THEN 1 ELSE 0)
                             = Due(o, n, h) + (IF h = "none" THEN 1 ELSE 0)
      BY <1>3, BalanceCells DEF Due
    <2>6. ASSUME NEW h \in Kinds
          PROVE  Owed(o, t, n + 1, h) + (IF h = "none" THEN 1 ELSE 0)
                   <= Owed(o, t, n, h) + (IF h = o THEN 1 ELSE 0)
      <3>1. h # "none"
        BY BalanceCells
      <3>2. Owed(o, t, n, h) = 0
        BY <1>3 DEF Owed
      <3>3. Owed(o, t, n + 1, h) = 0 \/ (h = o /\ Owed(o, t, n + 1, h) = 1)
        BY DEF Owed
      <3> QED BY <3>1, <3>2, <3>3
    <2> QED BY <2>4, <2>5, <2>6, BalanceShifts
  <1>4. CASE n = 3
    <2>1. Bucket(t) < CountsLen /\ Bucket(t) \in Buckets /\ n + 1 = 4
      BY <1>1, <1>4
    <2>2. Account(o, t)[4] = Add(<<"counts", "hdr_", Bucket(t)>>, 1)
      BY <2>1, AccountParts
    <2>3. Done(Add(<<"counts", "hdr_", Bucket(t)>>, 1)) /\ <<"counts", "hdr_", Bucket(t)>> \in Cells
      BY <2>1, <2>2, BalanceCells
    <2>4. Growth("hdr_", "none", "none")
      BY <1>0, <2>1, <2>3, AddGrows, BalanceCells
    <2>5. \A h \in Hists : Due(o, n + 1, h) + (IF h = "none" THEN 1 ELSE 0)
                             = Due(o, n, h) + (IF h = "hdr_" THEN 1 ELSE 0)
      BY <1>4, BalanceCells DEF Due
    <2>6. \A h \in Kinds : Owed(o, t, n + 1, h) + (IF h = "hdr_" THEN 1 ELSE 0)
                             <= Owed(o, t, n, h) + (IF h = "none" THEN 1 ELSE 0)
      BY <1>4, <2>1, BalanceCells DEF Owed
    <2> QED BY <2>4, <2>5, <2>6, BalanceShifts
  <1>5. CASE n = 4
    <2>1. Bucket(t) < CountsLen /\ Bucket(t) \in Buckets /\ n + 1 = 5
      BY <1>1, <1>5
    <2>2. Account(o, t)[5] = Add(<<"total", "hdr_", 0>>, 1)
      BY <2>1, AccountParts
    <2>3. Done(Add(<<"total", "hdr_", 0>>, 1)) /\ <<"total", "hdr_", 0>> \in Cells
      BY <2>1, <2>2, BalanceCells
    <2>4. Growth("none", "hdr_", "none")
      BY <1>0, <2>1, <2>3, AddGrows, BalanceCells
    <2>5. \A h \in Hists : Due(o, n + 1, h) + (IF h = "hdr_" THEN 1 ELSE 0)
                             = Due(o, n, h) + (IF h = "none" THEN 1 ELSE 0)
      BY <1>5, BalanceCells DEF Due
    <2>6. \A h \in Kinds : Owed(o, t, n + 1, h) + (IF h = "none" THEN 1 ELSE 0)
                             <= Owed(o, t, n, h) + (IF h = "none" THEN 1 ELSE 0)
      BY <1>5, <2>1, BalanceCells DEF Owed
    <2> QED BY <2>4, <2>5, <2>6, BalanceShifts
  <1>6. CASE n = 5
    <2>1. Bucket(t) < CountsLen /\ Bucket(t) \in Buckets /\ n + 1 = 6
      BY <1>1, <1>6
    <2>2. Account(o, t)[6] = Add(<<"counts", "hdr_last_1s_", Bucket(t)>>, 1)
      BY <2>1, AccountParts
    <2>3. Done(Add(<<"counts", "hdr_last_1s_", Bucket(t)>>, 1)) /\ <<"counts", "hdr_last_1s_", Bucket(t)>> \in Cells
      BY <2>1, <2>2, BalanceCells
    <2>4. Growth("hdr_last_1s_", "none", "none")
      BY <1>0, <2>1, <2>3, AddGrows, BalanceCells
    <2>5. \A h \in Hists : Due(o, n + 1, h) + (IF h = "none" THEN 1 ELSE 0)
                             = Due(o, n, h) + (IF h = "hdr_last_1s_" THEN 1 ELSE 0)
      BY <1>6, BalanceCells DEF Due
    <2>6. \A h \in Kinds : Owed(o, t, n + 1, h) + (IF h = "hdr_last_1s_" THEN 1 ELSE 0)
                             <= Owed(o, t, n, h) + (IF h = "none" THEN 1 ELSE 0)
      BY <1>6, <2>1, BalanceCells DEF Owed
    <2> QED BY <2>4, <2>5, <2>6, BalanceShifts
  <1>7. CASE n = 6
    <2>1. Bucket(t) < CountsLen /\ Bucket(t) \in Buckets /\ n + 1 = 7
      BY <1>1, <1>7
    <2>2. Account(o, t)[7] = Add(<<"total", "hdr_last_1s_", 0>>, 1)
      BY <2>1, AccountParts
    <2>3. Done(Add(<<"total", "hdr_last_1s_", 0>>, 1)) /\ <<"total", "hdr_last_1s_", 0>> \in Cells
      BY <2>1, <2>2, BalanceCells
    <2>4. Growth("none", "hdr_last_1s_", "none")
      BY <1>0, <2>1, <2>3, AddGrows, BalanceCells
    <2>5. \A h \in Hists : Due(o, n + 1, h) + (IF h = "hdr_last_1s_" THEN 1 ELSE 0)
                             = Due(o, n, h) + (IF h = "none" THEN 1 ELSE 0)
      BY <1>7, BalanceCells DEF Due
    <2>6. \A h \in Kinds : Owed(o, t, n + 1, h) + (IF h = "none" THEN 1 ELSE 0)
                             <= Owed(o, t, n, h) + (IF h = "none" THEN 1 ELSE 0)
      BY <1>7, <2>1, BalanceCells DEF Owed
    <2> QED BY <2>4, <2>5, <2>6, BalanceShifts
  <1>8. CASE n = 7
    <2>1. Bucket(t) < CountsLen /\ Bucket(t) \in Buckets /\ n + 1 = 8
      BY <1>1, <1>8
    <2>2. Account(o, t)[8] = Add(<<"counts", o, Bucket(t)>>, 1)
      BY <2>1, AccountParts
    <2>3. Done(Add(<<"counts", o, Bucket(t)>>, 1)) /\ <<"counts", o, Bucket(t)>> \in Cells
      BY <2>1, <2>2, BalanceCells
    <2>4. Growth(o, "none", "none")
      BY <1>0, <2>1, <2>3, AddGrows, BalanceCells
    <2>5. \A h \in Hists : Due(o, n + 1, h) + (IF h = "none" THEN 1 ELSE 0)
                             = Due(o, n, h) + (IF h = o THEN 1 ELSE 0)
      BY <1>8, BalanceCells DEF Due
    <2>6. \A h \in Kinds : Owed(o, t, n + 1, h) + (IF h = o THEN 1 ELSE 0)
                             <= Owed(o, t, n, h) + (IF h = "none" THEN 1 ELSE 0)
      BY <1>8, <2>1, BalanceCells DEF Owed
    <2> QED BY <2>4, <2>5, <2>6, BalanceShifts
  <1>9. CASE n = 8
    <2>1. Bucket(t) < CountsLen /\ Bucket(t) \in Buckets /\ n + 1 = 9
      BY <1>1, <1>9
    <2>2. Account(o, t)[9] = Add(<<"total", o, 0>>, 1)
      BY <2>1, AccountParts
    <2>3. Done(Add(<<"total", o, 0>>, 1)) /\ <<"total", o, 0>> \in Cells
      BY <2>1, <2>2, BalanceCells
    <2>4. Growth("none", o, "none")
      BY <1>0, <2>1, <2>3, AddGrows, BalanceCells
    <2>5. \A h \in Hists : Due(o, n + 1, h) + (IF h = o THEN 1 ELSE 0)
                             = Due(o, n, h) + (IF h = "none" THEN 1 ELSE 0)
      BY <1>9, BalanceCells DEF Due
    <2>6. \A h \in Kinds : Owed(o, t, n + 1, h) + (IF h = "none" THEN 1 ELSE 0)
                             <= Owed(o, t, n, h) + (IF h = "none" THEN 1 ELSE 0)
      BY <1>9, <2>1, BalanceCells DEF Owed
    <2> QED BY <2>4, <2>5, <2>6, BalanceShifts
  <1>10. CASE n = 2
    <2>1. Account(o, t)[3] = Qps("inc")
      BY AccountParts
    <2>2. Account(o, t)[3].do = "inc" /\ n + 1 = 3
      BY <1>10, <2>1 DEF Qps
    <2>3. mem' = mem
      BY <2>2 DEF Done
    <2>4. \A h : Due(o, n + 1, h) = Due(o, n, h) /\ Owed(o, t, n + 1, h) = Owed(o, t, n, h)
      BY <1>10 DEF Due, Owed
    <2>5. Balanced(o, t, n + 1)
      BY <2>4 DEF Balanced
    <2> QED BY <2>3, <2>5 DEF Balanced, RecordedIn, Hists, Due, Owed
  <1> QED BY <1>1, <1>2, <1>3, <1>4, <1>5, <1>6, <1>7, <1>8, <1>9, <1>10

\* At the end of an operation's bookkeeping nothing is due and nothing owed.
LEMMA BalanceEnds ==
  ASSUME NEW o \in Kinds, NEW t \in Latencies, NEW n \in Nat, n = Len(Account(o, t)),
         mem' \in [Cells -> Nat], Balanced(o, t, n)'
  PROVE  Even(Hists)'
  <1>1. PICK m : m = mem'
    OBVIOUS
  <1>2. Len(Account(o, t)) = IF Bucket(t) < CountsLen THEN 9 ELSE 3
    BY AccountParts
  <1>3. \A h : Due(o, n, h) = 0 /\ Owed(o, t, n, h) = 0
    BY <1>2 DEF Due, Owed
  <1>4. ASSUME NEW h \in Hists
        PROVE  Recorded(m, h) \in Int /\ m[<<"total", h, 0>>] \in Nat
    <2>1. CountsLen \in 0..CountsLen
      BY MeasurementsAssumption
    <2>2. m \in [Cells -> Nat]
      BY <1>1
    <2>3. PICK f : f \in [0..CountsLen -> Int] /\ Recorded(m, h) = f[CountsLen]
      BY <2>2, SumsExist
    <2> QED BY <2>1, <2>2, <2>3, BalanceCells
  <1>5. /\ \A h \in Hists : Recorded(m, h) = m[<<"total", h, 0>>] + Due(o, n, h)
        /\ \A h \in Kinds : Recorded(m, h) + Owed(o, t, n, h) <= m[<<"ops_cnt", h, 0>>]
    BY <1>1 DEF Balanced, RecordedIn, Hists, Due, Owed
  <1>6. ASSUME NEW h \in Hists PROVE Recorded(m, h) = m[<<"total", h, 0>>]
    <2>1. Recorded(m, h) = m[<<"total", h, 0>>] + 0
      BY <1>3, <1>5
    <2> QED BY <1>4, <2>1
  <1>7. ASSUME NEW h \in Kinds PROVE Recorded(m, h) <= m[<<"ops_cnt", h, 0>>]
    <2>1. h \in Hists
      BY BalanceCells
    <2>2. Recorded(m, h) + 0 <= m[<<"ops_cnt", h, 0>>]
      BY <1>3, <1>5
    <2>3. Recorded(m, h) \in Int
      BY <1>4, <2>1
    <2>4. Recorded(m, h) + 0 = Recorded(m, h)
      BY <2>3
    <2> QED BY <2>2, <2>4
  <1>8. /\ \A h \in Hists : RecordedIn(h)' = mem'[<<"total", h, 0>>]
        /\ \A h \in Kinds : RecordedIn(h)' <= mem'[<<"ops_cnt", h, 0>>]
    BY <1>1, <1>6, <1>7 DEF RecordedIn
  <1> QED BY <1>8 DEF Even, Hists

(***************************************************************************)
(* Worker 0 alone, at an instruction of an operation's bookkeeping: after  *)
(* it, worker 0 is at the next one, between two operations, or at the      *)
(* beginning of the hiccup line.                                           *)
(***************************************************************************)
LEMMA AccountGoesOn ==
  ASSUME MeasurementsTypeOK, MeasurementsTypeOK',
         NEW o \in Kinds, NEW t \in Latencies, NEW n \in Nat, Working(o, t, n),
         Done(Head(prog[0])), Step(0)
  PROVE  Phase'
  <1> PICK list : list = Account(o, t)
    OBVIOUS
  <1>1. list \in Seq(WorkInstr) /\ n \in 0..Len(list) /\ n < Len(list)
    <2>1. list \in Seq(WorkInstr) /\ n < Len(list)
      BY AccountType DEF Working
    <2> QED BY <2>1, LenProperties
  <1>2. prog[0] = SubSeq(list, n + 1, Len(list)) /\ Balanced(o, t, n)
    BY DEF Working
  <1>3. /\ Head(prog[0]) = list[n + 1]
        /\ Tail(prog[0]) = SubSeq(list, (n + 1) + 1, Len(list))
        /\ Len(prog[0]) = Len(list) - n
    BY <1>1, <1>2, Rest
  <1>4. Balanced(o, t, n + 1)'
    BY <1>1, <1>2, <1>3, BalanceMoves DEF MeasurementsTypeOK
  <1>5. n + 1 \in 0..Len(list) /\ n + 1 \in Nat
    BY <1>1, LenProperties
  <1>6. n + 1 = Len(list) => Even(Hists)'
    <2> SUFFICES ASSUME n + 1 = Len(list) PROVE Even(Hists)'
      OBVIOUS
    <2>1. (mem \in [Cells -> Nat])'
      BY DEF MeasurementsTypeOK
    <2> QED BY <1>4, <1>5, <2>1, BalanceEnds
  <1>7. \/ prog'[0] = Tail(prog[0])
        \/ Len(prog[0]) = 1 /\ prog'[0] = Hiccup
    <2>1. prog \in [Workers -> Seq(Instr)] /\ 0 \in Workers
      BY WorkerZero DEF MeasurementsTypeOK
    <2> QED BY <2>1 DEF Step
  <1>8. CASE prog'[0] = Tail(prog[0]) /\ n + 1 < Len(list)
    <2>1. Working(o, t, n + 1)'
      BY <1>3, <1>4, <1>8 DEF Working
    <2> QED BY <1>5, <2>1 DEF Phase
  <1>9. CASE prog'[0] = Tail(prog[0]) /\ n + 1 = Len(list)
    <2>1. prog'[0] = << >>
      BY <1>1, <1>3, <1>5, <1>9, Rest
    <2> QED BY <1>6, <1>9, <2>1 DEF Phase, Resting
  <1>10. CASE Len(prog[0]) = 1 /\ prog'[0] = Hiccup
    <2>1. Even(Hists)'
      BY <1>1, <1>3, <1>6, <1>10, LenProperties
    <2>2. Hiccup \in Seq(LineInstr) /\ Hiccup # << >>
      BY HiccupLine DEF IsLine
    <2>3. 0 < Len(Hiccup) /\ Hiccup = SubSeq(Hiccup, 0 + 1, Len(Hiccup))
      <3>1. SubSeq(Hiccup, 1, Len(Hiccup)) = Hiccup
        BY <2>2, SubSeqFull
      <3>2. Len(Hiccup) \in Nat /\ Len(Hiccup) # 0
        BY <2>2, EmptySeq, LenProperties
      <3> QED BY <3>1, <3>2
    <2>4. Even(Hists \ {"hdr_last_1s_"})'
      BY <2>1 DEF Even
    <2>5. Clearing(0)'
      BY HiccupClears DEF Clearing
    <2>6. Lining(0)'
      BY <1>10, <2>3, <2>4, <2>5 DEF Lining
    <2> QED BY <2>6 DEF Phase
  <1>11. n + 1 < Len(list) \/ n + 1 = Len(list)
    BY <1>1, LenProperties
  <1> QED BY <1>7, <1>8, <1>9, <1>10, <1>11

(***************************************************************************)
(* A reset of hdr_last_1s_ leaves the other histograms alone.              *)
(***************************************************************************)
LEMMA ResetLeavesOthers ==
  ASSUME mem \in [Cells -> Nat], Even(Hists \ {"hdr_last_1s_"}),
         \/ mem' = mem
         \/ \E c \in ResetCells : mem' = [mem EXCEPT ![c] = 0]
  PROVE  Even(Hists \ {"hdr_last_1s_"})'
  <1>1. /\ \A h \in Hists \ {"hdr_last_1s_"} : RecordedIn(h) = mem[<<"total", h, 0>>]
        /\ \A h \in Kinds : RecordedIn(h) <= mem[<<"ops_cnt", h, 0>>]
    BY DEF Even
  <1>2. \A h \in Kinds : h \in Hists \ {"hdr_last_1s_"}
    BY BalanceCells
  <1>3. SUFFICES /\ \A h \in Hists \ {"hdr_last_1s_"} :
                      /\ RecordedIn(h)' = RecordedIn(h)
                      /\ mem'[<<"total", h, 0>>] = mem[<<"total", h, 0>>]
                 /\ \A h \in Kinds : mem'[<<"ops_cnt", h, 0>>] = mem[<<"ops_cnt", h, 0>>]
    <2>1. /\ \A h \in Hists \ {"hdr_last_1s_"} : RecordedIn(h)' = mem'[<<"total", h, 0>>]
          /\ \A h \in Kinds : RecordedIn(h)' <= mem'[<<"ops_cnt", h, 0>>]
      BY <1>1, <1>2, <1>3
    <2> QED BY <2>1 DEF Even, Hists
  <1>4. CASE mem' = mem
    BY <1>4 DEF RecordedIn
  <1>5. ASSUME NEW c \in ResetCells, mem' = [mem EXCEPT ![c] = 0]
        PROVE  /\ \A h \in Hists \ {"hdr_last_1s_"} :
                     /\ RecordedIn(h)' = RecordedIn(h)
                     /\ mem'[<<"total", h, 0>>] = mem[<<"total", h, 0>>]
               /\ \A h \in Kinds : mem'[<<"ops_cnt", h, 0>>] = mem[<<"ops_cnt", h, 0>>]
    <2>1. c \in Cells /\ c[2] = "hdr_last_1s_" /\ c[1] # "ops_cnt"
      BY DEF ResetCells, HistCells, Cells
    <2>2. 0 \in Nat
      OBVIOUS
    <2>3. /\ \A h \in Hists :
               (\A b \in Buckets : c # <<"counts", h, b>>) => RecordedIn(h)' = RecordedIn(h)
          /\ \A d \in Cells : mem'[d] = IF d = c THEN 0 ELSE mem[d]
      BY <1>5, <2>1, <2>2, CellChanges
    <2>4. \A h \in Hists \ {"hdr_last_1s_"} :
             /\ <<"total", h, 0>> # c
             /\ \A b \in Buckets : c # <<"counts", h, b>>
      BY <2>1
    <2>5. \A h \in Kinds : <<"ops_cnt", h, 0>> # c
      BY <2>1
    <2> QED BY <2>3, <2>4, <2>5, BalanceCells
  <1> QED BY <1>4, <1>5

(***************************************************************************)
(* Worker 0 alone, at an instruction of the hiccup line: after it, worker  *)
(* 0 is at the next one, or has cleared hdr_last_1s_ and goes on.          *)
(***************************************************************************)
LEMMA LineGoesOn ==
  ASSUME MeasurementsTypeOK, MeasurementsTypeOK', Shape, NEW n \in Nat, Lining(n), Step(0),
         Head(prog[0]).do = "set" => mem' = [mem EXCEPT ![Head(prog[0]).cell] = 0],
         Head(prog[0]).do # "set" => mem' = mem
  PROVE  Phase'
  <1>1. Hiccup \in Seq(LineInstr) /\ Len(Hiccup) \in Nat /\ n \in 0..Len(Hiccup) /\ n < Len(Hiccup)
    <2>1. Hiccup \in Seq(LineInstr)
      BY HiccupLine DEF IsLine
    <2>2. Len(Hiccup) \in Nat /\ n < Len(Hiccup)
      BY <2>1, LenProperties DEF Lining
    <2> QED BY <2>1, <2>2
  <1>2. /\ prog[0] = SubSeq(Hiccup, n + 1, Len(Hiccup))
        /\ Even(Hists \ {"hdr_last_1s_"}) /\ Clearing(n)
    BY DEF Lining
  <1>3. PICK i : i = Head(prog[0])
    OBVIOUS
  <1>4. /\ i = Hiccup[n + 1] /\ prog[0] # << >>
        /\ Tail(prog[0]) = SubSeq(Hiccup, (n + 1) + 1, Len(Hiccup))
    BY <1>1, <1>2, <1>3, Rest
  <1>5. i \in LineInstr
    <2>1. n + 1 \in 1..Len(Hiccup)
      BY <1>1
    <2> QED BY <1>1, <1>4, <2>1, ElementOfSeq
  <1>6. /\ i.do \in {"set", "print", "zero"}
        /\ i.do = "set" => i.cell \in ResetCells
    BY <1>5 DEF LineInstr, LineResets
  <1>7. IsLine(prog[0])
    BY <1>3, <1>4, <1>6, HeadKinds, WorkerZero
  <1>8. prog'[0] = Tail(prog[0])
    <2>1. prog \in [Workers -> Seq(Instr)] /\ 0 \in Workers
      BY WorkerZero DEF MeasurementsTypeOK
    <2>2. Head(prog[0]).do # "zero" => Len(prog[0]) # 1
      BY <1>4, <1>7, TailShape
    <2> QED BY <2>1, <2>2 DEF Step
  <1>9. /\ i.do = "set" => mem' = [mem EXCEPT ![i.cell] = 0]
        /\ i.do # "set" => mem' = mem
    BY <1>3
  <1>10. mem \in [Cells -> Nat] /\ mem' \in [Cells -> Nat]
    BY DEF MeasurementsTypeOK
  <1>11. Even(Hists \ {"hdr_last_1s_"})'
    BY <1>2, <1>6, <1>9, <1>10, ResetLeavesOthers
  <1>12. ASSUME NEW c \in ResetCells
         PROVE  mem'[c] = 0 \/ \E j \in ((n + 1) + 1)..Len(Hiccup) : Hiccup[j] = Set(c, 0)
    <2>1. c \in Cells
      BY DEF ResetCells, Cells
    <2>2. CASE mem[c] = 0
      BY <1>9, <1>10, <2>1, <2>2
    <2>3. ASSUME NEW j \in (n + 1)..Len(Hiccup), Hiccup[j] = Set(c, 0)
          PROVE  mem'[c] = 0 \/ \E e \in ((n + 1) + 1)..Len(Hiccup) : Hiccup[e] = Set(c, 0)
      <3>1. CASE j = n + 1
        <4>1. i.do = "set" /\ i.cell = c
          BY <1>4, <2>3, <3>1 DEF Set
        <4> QED BY <1>9, <1>10, <2>1, <4>1
      <3>2. CASE j # n + 1
        <4>1. j \in ((n + 1) + 1)..Len(Hiccup)
          BY <1>1, <3>2
        <4> QED BY <2>3, <4>1
      <3> QED BY <3>1, <3>2
    <2> QED BY <1>2, <2>2, <2>3 DEF Clearing
  <1>13. CASE n + 1 < Len(Hiccup)
    <2>1. Clearing(n + 1)'
      BY <1>12 DEF Clearing, ResetCells, HistCells, Hists, Buckets
    <2>2. prog'[0] = SubSeq(Hiccup, (n + 1) + 1, Len(Hiccup))
      BY <1>4, <1>8
    <2>3. Lining(n + 1)'
      BY <1>11, <1>13, <2>1, <2>2 DEF Lining
    <2> QED BY <2>3 DEF Phase
  <1>14. CASE n + 1 = Len(Hiccup)
    <2>1. prog'[0] = << >>
      <3>1. n + 1 \in 0..Len(Hiccup)
        BY <1>1
      <3> QED BY <1>1, <1>4, <1>8, <1>14, <3>1, Rest
    <2>2. \A c \in ResetCells : mem'[c] = 0
      BY <1>1, <1>12, <1>14
    <2>3. PICK m : m = mem'
      OBVIOUS
    <2>4. /\ \A b \in Buckets : m[<<"counts", "hdr_last_1s_", b>>] = 0
          /\ m[<<"total", "hdr_last_1s_", 0>>] = 0
      BY <2>2, <2>3 DEF ResetCells, HistCells, Hists
    <2>5. m \in [Cells -> Nat] /\ "hdr_last_1s_" \in Hists
      BY <1>10, <2>3, BalanceCells
    <2>6. Recorded(m, "hdr_last_1s_") = 0
      BY <2>4, <2>5, SumOfNone
    <2>7. RecordedIn("hdr_last_1s_")' = mem'[<<"total", "hdr_last_1s_", 0>>]
      BY <2>3, <2>4, <2>6 DEF RecordedIn
    <2>8. Even(Hists)'
      BY <1>11, <2>7 DEF Even
    <2> QED BY <2>1, <2>8 DEF Phase, Resting
  <1> QED BY <1>1, <1>13, <1>14

\* A worker that is in an operation has started.
LEMMA OthersStart ==
  ASSUME MeasurementsInv, MeasurementsInv', ExactInv, NEW k \in Workers, WorkerNext(k)
  PROVE  /\ NotStarted'
         /\ k # 0 => ~Alone'
         /\ k = 0 => (Alone' <=> Alone)
  <1>1. OpsPerThread \in Nat /\ left \in [Workers -> 0..OpsPerThread] /\ prog \in [Workers -> Seq(Instr)]
    BY MeasurementsAssumption DEF MeasurementsInv, MeasurementsTypeOK
  <1>2. \A j \in Workers : left[j] = OpsPerThread => prog[j] = << >>
    BY DEF ExactInv, NotStarted
  <1>3. /\ left'[k] # OpsPerThread
        /\ \A j \in Workers \ {k} : left'[j] = left[j] /\ prog'[j] = prog[j]
    <2>1. CASE Execute(k)
      <3>1. left' = [left EXCEPT ![k] = left[k] - 1] /\ left[k] \in 0..OpsPerThread
        BY <1>1, <2>1 DEF Execute
      <3>2. left'[k] = left[k] - 1 /\ \A j \in Workers \ {k} : left'[j] = left[j]
        BY <1>1, <3>1
      <3>3. \A j \in Workers \ {k} : prog'[j] = prog[j]
        BY <1>1, <2>1 DEF Execute
      <3>4. left'[k] # OpsPerThread
        BY <1>1, <3>1, <3>2
      <3> QED BY <3>2, <3>3, <3>4
    <2>2. CASE ~Execute(k)
      <3>1. /\ prog[k] # << >> /\ left' = left
            /\ prog' = prog \/ Step(k)
        BY <2>2 DEF WorkerNext, Load, Store, Assign, Increment, PrintLine, Zero, Doing
      <3>2. \A j \in Workers \ {k} : prog'[j] = prog[j]
        BY <1>1, <3>1 DEF Step
      <3>3. left[k] # OpsPerThread
        BY <1>2, <3>1
      <3> QED BY <3>1, <3>2, <3>3
    <2> QED BY <2>1, <2>2
  <1>4. NotStarted'
    <2>1. \A j \in Workers : left'[j] = OpsPerThread => prog'[j] = << >>
      BY <1>2, <1>3
    <2> QED BY <2>1 DEF NotStarted, Workers
  <1>5. k # 0 => ~Alone'
    <2>1. ASSUME k # 0 PROVE ~(\A j \in Workers \ {0} : left'[j] = OpsPerThread)
      BY <1>3, <2>1
    <2> QED BY <2>1 DEF Alone, Workers
  <1>6. k = 0 => (Alone' <=> Alone)
    <2>1. ASSUME k = 0 PROVE \A j \in Workers \ {0} : left'[j] = left[j]
      BY <1>3, <2>1
    <2> QED BY <2>1 DEF Alone, Workers
  <1> QED BY <1>4, <1>5, <1>6

\* The phases that worker 0 can be in tell from its instructions.
LEMMA PhaseTells ==
  ASSUME Phase
  PROVE  /\ prog[0] = << >> => Resting
         /\ prog[0] # << >> /\ Head(prog[0]).do \in {"add", "inc"} =>
              \E o \in Kinds, t \in Latencies, n \in Nat : Working(o, t, n)
         /\ prog[0] # << >> /\ Head(prog[0]).do \notin {"add", "inc"} =>
              \E n \in Nat : Lining(n)
  <1>1. ASSUME NEW o \in Kinds, NEW t \in Latencies, NEW n \in Nat, Working(o, t, n)
        PROVE  prog[0] # << >> /\ Head(prog[0]).do \in {"add", "inc"}
    <2>1. Account(o, t) \in Seq(WorkInstr)
      BY AccountType
    <2>2. n < Len(Account(o, t)) /\ prog[0] = SubSeq(Account(o, t), n + 1, Len(Account(o, t)))
      BY <1>1 DEF Working
    <2>3. n \in 0..Len(Account(o, t)) /\ n + 1 \in 1..Len(Account(o, t))
      BY <2>1, <2>2, LenProperties
    <2>4. prog[0] # << >> /\ Head(prog[0]) = Account(o, t)[n + 1]
      BY <2>1, <2>2, <2>3, Rest
    <2>5. Head(prog[0]) \in WorkInstr
      BY <2>1, <2>3, <2>4, ElementOfSeq
    <2> QED BY <2>4, <2>5 DEF WorkInstr, Adds
  <1>2. ASSUME NEW n \in Nat, Lining(n)
        PROVE  prog[0] # << >> /\ Head(prog[0]).do \notin {"add", "inc"}
    <2>1. Hiccup \in Seq(LineInstr)
      BY HiccupLine DEF IsLine
    <2>2. n < Len(Hiccup) /\ prog[0] = SubSeq(Hiccup, n + 1, Len(Hiccup))
      BY <1>2 DEF Lining
    <2>3. n \in 0..Len(Hiccup) /\ n + 1 \in 1..Len(Hiccup)
      BY <2>1, <2>2, LenProperties
    <2>4. prog[0] # << >> /\ Head(prog[0]) = Hiccup[n + 1]
      BY <2>1, <2>2, <2>3, Rest
    <2>5. Head(prog[0]) \in LineInstr
      BY <2>1, <2>3, <2>4, ElementOfSeq
    <2> QED BY <2>4, <2>5 DEF LineInstr, LineResets
  <1>3. Resting => prog[0] = << >>
    BY DEF Resting
  <1> QED BY <1>1, <1>2, <1>3 DEF Phase

(***************************************************************************)
(* A step of worker 0 while it is alone.                                   *)
(***************************************************************************)
LEMMA AloneStep ==
  ASSUME MeasurementsInv, MeasurementsInv', Sequential, WorkerNext(0)
  PROVE  Sequential'
  <1> DEFINE i == Head(prog[0])
  <1>0. /\ 0 \in Workers /\ Phase
        /\ half[0] = "store" => reg[0] = mem[i.cell]
        /\ \A c \in Cells \ ResetCells : mem[c] = issued[c]
    BY WorkerZero DEF Sequential
  <1>1. /\ MeasurementsTypeOK /\ MeasurementsTypeOK' /\ Shape /\ Registers
        /\ mem \in [Cells -> Nat] /\ mem' \in [Cells -> Nat]
        /\ half \in [Workers -> {"load", "store"}] /\ prog \in [Workers -> Seq(Instr)]
        /\ reg \in [Workers -> Nat] /\ issued \in [Cells -> Nat]
    BY DEF MeasurementsInv, MeasurementsTypeOK
  <1>2. half[0] = "store" => prog[0] # << >> /\ i.do = "add"
    BY <1>0, <1>1 DEF Registers
  <1>3. SUFFICES /\ half'[0] = "store" => reg'[0] = mem'[Head(prog'[0]).cell]
                 /\ \A c \in Cells \ ResetCells : mem'[c] = issued'[c]
                 /\ Phase'
    BY DEF Sequential, Cells, TimeCells, CountCells, HistCells, ResetCells, Hists, Buckets
  <1>4. CASE Execute(0)
    <2>1. /\ prog[0] = << >> /\ mem' = mem /\ issued' = issued /\ half' = half
      BY <1>4 DEF Execute
    <2>2. half'[0] # "store"
      BY <1>2, <2>1
    <2>3. PICK o \in Kinds, t \in Latencies : prog' = [prog EXCEPT ![0] = Account(o, t)]
      BY <1>4 DEF Execute
    <2>4. prog'[0] = Account(o, t)
      BY <1>0, <1>1, <2>3
    <2>5. /\ Account(o, t) \in Seq(WorkInstr) /\ 0 < Len(Account(o, t))
      <3>1. Account(o, t) \in Seq(WorkInstr)
        BY AccountType
      <3>2. Len(Account(o, t)) = IF Bucket(t) < CountsLen THEN 9 ELSE 3
        BY AccountParts
      <3>3. 0 < Len(Account(o, t))
        BY <3>2
      <3> QED BY <3>1, <3>3
    <2>6. SubSeq(Account(o, t), 0 + 1, Len(Account(o, t))) = Account(o, t)
      <3>1. SubSeq(Account(o, t), 1, Len(Account(o, t))) = Account(o, t)
        BY <2>5, SubSeqFull
      <3> QED BY <3>1
    <2>7. Even(Hists)
      BY <1>0, <2>1, PhaseTells DEF Resting
    <2>8. Balanced(o, t, 0)'
      <3> PICK m : m = mem
        OBVIOUS
      <3>1. \A h \in Hists : Recorded(m, h) \in Int
        <4> SUFFICES ASSUME NEW h \in Hists PROVE Recorded(m, h) \in Int
          OBVIOUS
        <4>1. CountsLen \in 0..CountsLen
          BY MeasurementsAssumption
        <4>2. PICK f : f \in [0..CountsLen -> Int] /\ Recorded(m, h) = f[CountsLen]
          BY <1>1, SumsExist
        <4> QED BY <4>1, <4>2
      <3>2. /\ \A h \in Hists : Recorded(m, h) = m[<<"total", h, 0>>]
            /\ \A h \in Kinds : Recorded(m, h) <= m[<<"ops_cnt", h, 0>>]
        BY <2>7 DEF Even, RecordedIn
      <3>3. \A h : Due(o, 0, h) = 0 /\ Owed(o, t, 0, h) = 0
        BY DEF Due, Owed
      <3>4. /\ \A h \in Hists : Recorded(m, h) = m[<<"total", h, 0>>] + Due(o, 0, h)
            /\ \A h \in Kinds : Recorded(m, h) + Owed(o, t, 0, h) <= m[<<"ops_cnt", h, 0>>]
        <4>1. ASSUME NEW h \in Hists
              PROVE  /\ Recorded(m, h) + 0 = Recorded(m, h)
                     /\ m[<<"total", h, 0>>] + 0 = m[<<"total", h, 0>>]
          BY <3>1, <3>2
        <4>2. \A h \in Kinds : h \in Hists
          BY BalanceCells
        <4> QED BY <3>2, <3>3, <4>1, <4>2
      <3>5. mem' = m
        BY <2>1
      <3> QED BY <3>4, <3>5 DEF Balanced, RecordedIn, Hists, Due, Owed
    <2>9. Working(o, t, 0)'
      BY <2>4, <2>5, <2>6, <2>8 DEF Working
    <2>10. Phase'
      BY <2>9 DEF Phase
    <2> QED BY <1>0, <2>1, <2>2, <2>10
  <1>5. CASE Load(0)
    <2>1. /\ prog' = prog /\ mem' = mem /\ issued' = issued /\ reg'[0] = mem[i.cell]
      BY <1>0, <1>1, <1>5 DEF Load
    <2>2. Phase'
      BY <1>0, <2>1 DEF Phase, Resting, Working, Lining, Even, Balanced, Clearing, RecordedIn
    <2> QED BY <1>0, <2>1, <2>2
  <1>6. CASE Store(0)
    <2>1. /\ prog[0] # << >> /\ i.do = "add" /\ half[0] = "store" /\ Step(0)
          /\ mem' = [mem EXCEPT ![i.cell] = reg[0] + i.arg]
          /\ issued' = [issued EXCEPT ![i.cell] = issued[i.cell] + i.arg]
          /\ half' = [half EXCEPT ![0] = "load"]
      BY <1>6 DEF Store, Doing
    <2>2. half'[0] = "load"
      BY <1>0, <1>1, <2>1
    <2>3. reg[0] = mem[i.cell]
      BY <1>0, <2>1
    <2>4. Done(i)
      BY <2>1, <2>3 DEF Done
    <2>5. PICK o \in Kinds, t \in Latencies, n \in Nat : Working(o, t, n)
      BY <1>0, <2>1, PhaseTells
    <2>6. Phase'
      BY <1>1, <2>1, <2>4, <2>5, AccountGoesOn
    <2>7. i.cell \in Cells
      BY <1>0, <1>1, <2>1, HeadKinds, AddFacts
    <2>8. \A c \in Cells \ ResetCells : mem'[c] = issued'[c]
      BY <1>0, <1>1, <2>1, <2>3, <2>7
    <2> QED BY <2>2, <2>6, <2>8
  <1>7. CASE Increment(0)
    <2>1. /\ prog[0] # << >> /\ i.do = "inc" /\ Step(0) /\ mem' = mem /\ issued' = issued
          /\ half' = half
      BY <1>7 DEF Increment, Doing
    <2>2. half'[0] # "store"
      BY <1>2, <2>1
    <2>3. Done(i)
      BY <2>1 DEF Done
    <2>4. PICK o \in Kinds, t \in Latencies, n \in Nat : Working(o, t, n)
      BY <1>0, <2>1, PhaseTells
    <2>5. Phase'
      BY <1>1, <2>1, <2>3, <2>4, AccountGoesOn
    <2> QED BY <1>0, <2>1, <2>2, <2>5
  <1>8. CASE Assign(0)
    <2>1. /\ prog[0] # << >> /\ i.do = "set" /\ Step(0) /\ mem' = [mem EXCEPT ![i.cell] = i.arg]
          /\ issued' = issued /\ half' = half
      BY <1>8 DEF Assign, Doing
    <2>2. half'[0] # "store"
      BY <1>2, <2>1
    <2>3. i \in LineInstr
      BY <1>0, <1>1, <2>1, HeadKinds
    <2>4. i.cell \in ResetCells /\ i.arg = 0
      BY <2>1, <2>3 DEF LineInstr, LineResets
    <2>5. PICK n \in Nat : Lining(n)
      BY <1>0, <2>1, PhaseTells
    <2>6. Phase'
      BY <1>1, <2>1, <2>4, <2>5, LineGoesOn
    <2>7. \A c \in Cells \ ResetCells : mem'[c] = issued'[c]
      BY <1>0, <1>1, <2>1, <2>4
    <2> QED BY <2>2, <2>6, <2>7
  <1>9. CASE PrintLine(0) \/ Zero(0)
    <2>1. /\ prog[0] # << >> /\ i.do \in {"print", "zero"} /\ Step(0) /\ mem' = mem
          /\ issued' = issued /\ half' = half
      BY <1>9 DEF PrintLine, Zero, Doing
    <2>2. half'[0] # "store"
      BY <1>2, <2>1
    <2>3. PICK n \in Nat : Lining(n)
      BY <1>0, <2>1, PhaseTells
    <2>4. Phase'
      BY <1>1, <2>1, <2>3, LineGoesOn
    <2> QED BY <1>0, <2>1, <2>2, <2>4
  <1> QED BY <1>4, <1>5, <1>6, <1>7, <1>8, <1>9 DEF WorkerNext

(***************************************************************************)
(* It holds when the workers start, and a step of any of them keeps it.    *)
(***************************************************************************)
LEMMA ExactInductive ==
  /\ Init => ExactInv
  /\ MeasurementsInv /\ MeasurementsInv' /\ ExactInv /\ [Next]_vars => ExactInv'
  <1>1. ASSUME Init PROVE ExactInv
    <2>0. /\ mem = [c \in Cells |-> 0] /\ prog = [k \in Workers |-> << >>]
          /\ half = [k \in Workers |-> "load"] /\ issued = [c \in Cells |-> 0] /\ 0 \in Workers
      BY <1>1, WorkerZero DEF Init
    <2>1. NotStarted
      BY <2>0 DEF NotStarted
    <2>2. PICK m : m = mem
      OBVIOUS
    <2>3. m \in [Cells -> Nat] /\ \A c \in Cells : m[c] = 0
      BY <2>0, <2>2
    <2>4. \A h \in Hists : \A b \in Buckets : m[<<"counts", h, b>>] = 0
      BY <2>3, BalanceCells
    <2>5. \A h \in Hists : Recorded(m, h) = 0
      BY <2>3, <2>4, SumOfNone
    <2>6. /\ \A h \in Hists : m[<<"total", h, 0>>] = 0
          /\ \A h \in Kinds : m[<<"ops_cnt", h, 0>>] = 0 /\ h \in Hists
      BY <2>3, BalanceCells
    <2>7. Even(Hists)
      BY <2>2, <2>5, <2>6 DEF Even, RecordedIn
    <2>8. Phase
      BY <2>0, <2>7 DEF Phase, Resting
    <2>9. half[0] # "store" /\ \A c \in Cells \ ResetCells : mem[c] = issued[c]
      BY <2>0
    <2> QED BY <2>1, <2>8, <2>9 DEF ExactInv, Sequential
  <1>2. ASSUME MeasurementsInv, MeasurementsInv', ExactInv, NEW k \in Workers, WorkerNext(k)
        PROVE  ExactInv'
    <2>1. /\ NotStarted'
          /\ k # 0 => ~Alone'
          /\ k = 0 => (Alone' <=> Alone)
      BY <1>2, OthersStart
    <2>2. ASSUME k = 0, Alone PROVE Sequential'
      BY <1>2, <2>2, AloneStep DEF ExactInv
    <2> QED BY <2>1, <2>2 DEF ExactInv
  <1>3. ASSUME ExactInv, UNCHANGED vars PROVE ExactInv'
    <2>1. /\ mem' = mem /\ left' = left /\ prog' = prog /\ half' = half /\ reg' = reg
          /\ issued' = issued
      BY <1>3 DEF vars
    <2>2. NotStarted' /\ (Alone' <=> Alone)
      BY <1>3, <2>1 DEF ExactInv, NotStarted, Alone, Workers
    <2>3. Phase => Phase'
      BY <2>1 DEF Phase, Resting, Working, Lining, Even, Balanced, Clearing, RecordedIn
    <2>4. Sequential => Sequential'
      BY <2>1, <2>3 DEF Sequential, Cells, TimeCells, CountCells, HistCells, ResetCells, Hists,
                        Buckets
    <2> QED BY <1>3, <2>2, <2>4 DEF ExactInv
  <1> QED BY <1>1, <1>2, <1>3 DEF Next

(***************************************************************************)
(* As long as worker 0 is alone nothing is lost, and every histogram's     *)
(* total is the sum of its counts after each operation, whatever the       *)
(* latencies, the buckets and the number of hiccup lines in between.       *)
(***************************************************************************)
THEOREM AloneIsExact == Spec => []SequentialExact
  <1>1. ASSUME ExactInv PROVE SequentialExact
    <2> SUFFICES ASSUME prog[0] = << >>, \A k \in Workers \ {0} : left[k] = OpsPerThread
                 PROVE  /\ \A c \in Cells \ ResetCells : mem[c] = issued[c]
                        /\ \A h \in Hists : RecordedIn(h) = mem[<<"total", h, 0>>]
                        /\ \A h \in Kinds : RecordedIn(h) <= mem[<<"ops_cnt", h, 0>>]
      BY DEF SequentialExact
    <2>1. Sequential
      BY <1>1 DEF ExactInv, Alone
    <2>2. Even(Hists)
      BY <2>1, PhaseTells DEF Sequential, Resting
    <2> QED BY <2>1, <2>2 DEF Sequential, Even
  <1> QED BY <1>1, MeasurementsInductive, ExactInductive, PTL DEF Spec
=============================================================================
