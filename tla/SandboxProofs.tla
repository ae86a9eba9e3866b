---------------------------- MODULE SandboxProofs ----------------------------
(***************************************************************************)
(* Sandbox, for every tick, timeout, number of blocks and guest: a block   *)
(* is recorded with bytes of its own, no call is interrupted before its    *)
(* time, and a parse that ends well has decided every block.               *)
(***************************************************************************)
EXTENDS Sandbox, TLAPS

USE PeriodAssumption, TimeoutsAssumption, NBlocksAssumption, SizesAssumption

(***************************************************************************)
(* The parse: a call is made for a scrambled block that is there; what     *)
(* lies before the block in hand is decided; the loop ends behind the last.*)
(***************************************************************************)
LoopInv ==
  /\ call # "none" => phase = "loop" /\ blk <= NBlocks /\ kind[blk] = "scrambled"
  /\ phase \in {"load", "loop", "done"} => \A k \in Blocks : k < blk => record[k].known
  /\ phase = "done" => blk > NBlocks
  /\ \A k \in Blocks : k >= blk => record[k] = NoRecord

(***************************************************************************)
(* The call: the memory is that of the block in hand from the write on,    *)
(* and so is the output once it was read; a result stands until descramble *)
(* returns.                                                                *)
(***************************************************************************)
CallInv ==
  /\ call \in {"descramble", "read"} => mem.owner = blk
  /\ result # "none" => call \in {"deallocate", "return"}
  /\ result = "ok" => output.owner = blk

\* How much of the tick under way has passed.
Underway == IF ticker = "sleep" THEN slept ELSE 0

(***************************************************************************)
(* The clock: the time of a call is at least that of the ticks counted     *)
(* since its deadline was set, but for the one under way at that moment.   *)
(***************************************************************************)
ClockInv ==
  /\ call # "none" =>
       /\ left <= Ticks(timeout)
       /\ elapsed < timeout =>
            elapsed >= (Ticks(timeout) - left - 1) * Period + Underway
  /\ result = "timeout" => elapsed > timeout - 2 * Period

IInv == TypeOK /\ LoopInv /\ CallInv /\ ClockInv /\ RecordedBytesAreItsOwn

----------------------------------------------------------------------------
\* Arithmetic of ticks.

(***************************************************************************)
(* A timeout is less than one tick longer than the ticks it is rounded to. *)
(***************************************************************************)
LEMMA TicksFact ==
  ASSUME NEW t \in Nat
  PROVE  /\ Ticks(t) \in Nat \ {0}
         /\ t < Ticks(t) * Period + Period
<1>1. /\ t \div Period \in Nat
      /\ t < Period * (t \div Period) + Period
  BY Z3
<1>2. CASE t \div Period >= 1
  BY <1>1, <1>2 DEF Ticks
<1>3. CASE t \div Period = 0
  BY <1>1, <1>3 DEF Ticks
<1> QED  BY <1>1, <1>2, <1>3

----------------------------------------------------------------------------
\* The steps, one lemma an action or for several that disturb the same part.

LEMMA InitInv == Init => IInv
<1> SUFFICES ASSUME Init  PROVE IInv
  OBVIOUS
<1>1. TypeOK
  <2>1. 1 \in 1 .. NBlocks + 1 /\ 0 \in 0 .. Period
    OBVIOUS
  <2>2. /\ DOMAIN record = Blocks
        /\ \A k \in Blocks : record[k] = NoRecord
    BY DEF Init
  <2> QED  BY <2>1, <2>2 DEF Init, TypeOK, MemoryContents
<1>2. RecordedBytesAreItsOwn
  BY DEF Init, RecordedBytesAreItsOwn, NoRecord
<1> QED  BY <1>1, <1>2 DEF Init, IInv, LoopInv, CallInv, ClockInv, Blocks

(***************************************************************************)
(* Steps of the parse outside of a call that keep every record.            *)
(***************************************************************************)
LEMMA PhaseInv ==
  ASSUME IInv, LoadPlugin \/ LoadNone \/ InterpretFails \/ LoopEnds
  PROVE  IInv'
<1> USE DEF parse, clock, store, guest
<1>1. TypeOK'
  BY DEF IInv, TypeOK, LoadPlugin, LoadNone, InterpretFails, LoopEnds, FlagAfterDrop
<1>2. LoopInv'
  <2>1. CASE LoadPlugin \/ LoadNone \/ InterpretFails
    BY <2>1 DEF IInv, LoopInv, LoadPlugin, LoadNone, InterpretFails
  <2>2. CASE LoopEnds
    BY <2>2 DEF IInv, TypeOK, LoopInv, LoopEnds, BlocksLeft
  <2> QED  BY <2>1, <2>2
<1>3. CallInv'
  BY DEF IInv, CallInv, LoadPlugin, LoadNone, InterpretFails, LoopEnds
<1>4. ClockInv'
  BY DEF IInv, LoopInv, ClockInv, LoadPlugin, LoadNone, InterpretFails, LoopEnds, Underway
<1>5. RecordedBytesAreItsOwn'
  BY DEF IInv, RecordedBytesAreItsOwn, LoadPlugin, LoadNone, InterpretFails, LoopEnds
<1> QED  BY <1>1, <1>2, <1>3, <1>4, <1>5 DEF IInv

(***************************************************************************)
(* A block is decided: kept as it is, or with what its own call gave.      *)
(***************************************************************************)
LEMMA KeepInv ==
  ASSUME IInv, NEW r, phase = "loop", blk \in Blocks, Keep(r),
         r = Plain \/ (r = Descrambled(output) /\ output.owner = blk /\ kind[blk] = "scrambled"),
         UNCHANGED <<active, clock, left, guest, elapsed>>,
         call' = "none", result' = "none"
  PROVE  IInv'
<1> USE DEF Keep, clock, guest
<1>1. r \in {NoRecord, Plain} \cup {Descrambled(m) : m \in MemoryContents} /\ r.known
  BY DEF IInv, TypeOK, Plain, Descrambled
<1>2. TypeOK'
  <2>1. blk' \in 1 .. NBlocks + 1
    BY DEF Blocks
  <2>2. (DOMAIN record = Blocks)'
    BY DEF IInv, TypeOK
  <2>3. (\A k \in Blocks :
           record[k] \in {NoRecord, Plain} \cup {Descrambled(m) : m \in MemoryContents})'
    BY <1>1 DEF IInv, TypeOK
  <2> QED  BY <2>1, <2>2, <2>3 DEF IInv, TypeOK, MemoryContents
<1>3. LoopInv'
  BY <1>1 DEF IInv, TypeOK, LoopInv, Blocks
<1>4. CallInv' /\ ClockInv'
  BY DEF IInv, CallInv, ClockInv
<1>5. RecordedBytesAreItsOwn'
  <2> SUFFICES ASSUME NEW k \in Blocks, record'[k].descrambled
               PROVE  kind[k] = "scrambled" /\ record'[k].hash.owner = k
    BY DEF RecordedBytesAreItsOwn
  <2>1. CASE k = blk
    BY <2>1 DEF IInv, TypeOK, Plain, Descrambled
  <2>2. CASE k # blk
    BY <2>2 DEF IInv, RecordedBytesAreItsOwn, TypeOK
  <2> QED  BY <2>1, <2>2
<1> QED  BY <1>2, <1>3, <1>4, <1>5 DEF IInv

LEMMA KeepPlainInv == ASSUME IInv, KeepPlain  PROVE IInv'
<1>1. blk \in Blocks /\ phase = "loop" /\ Keep(Plain)
  BY DEF IInv, TypeOK, KeepPlain, BlocksLeft, Blocks
<1>2. call' = "none" /\ result' = "none" /\ UNCHANGED <<active, clock, left, guest, elapsed>>
  BY DEF IInv, TypeOK, CallInv, KeepPlain, store
<1> QED  BY <1>1, <1>2, KeepInv

LEMMA EndCallInv == ASSUME IInv, EndCall  PROVE IInv'
<1>1. blk \in Blocks /\ phase = "loop" /\ kind[blk] = "scrambled"
  BY DEF IInv, TypeOK, LoopInv, EndCall, Blocks
<1>2. \/ RecordOf = Plain
      \/ RecordOf = Descrambled(output) /\ output.owner = blk
  BY DEF IInv, CallInv, RecordOf
<1>3. Keep(RecordOf) /\ call' = "none" /\ result' = "none"
      /\ UNCHANGED <<active, clock, left, guest, elapsed>>
  BY DEF EndCall
<1> QED  BY <1>1, <1>2, <1>3, KeepInv

LEMMA BeginCallInv == ASSUME IInv, BeginCall  PROVE IInv'
<1> USE DEF BeginCall, parse, clock
<1>1. timeout \in Nat  BY DEF IInv, TypeOK
<1>2. Ticks(timeout) \in Nat \ {0}  BY <1>1, TicksFact
<1>3. TypeOK'
  BY <1>2 DEF IInv, TypeOK, Deadline, Stages, Answering, MemoryContents
<1>4. LoopInv'
  BY DEF IInv, LoopInv, BlocksLeft
<1>5. CallInv'
  BY DEF IInv, CallInv
<1>6. ClockInv'
  <2>1. left' = Ticks(timeout) /\ Underway' <= Period /\ result' # "timeout"
    BY DEF IInv, TypeOK, CallInv, Deadline, Underway
  <2>2. (Ticks(timeout) - left' - 1) * Period + Underway' <= 0
    BY <1>2, <2>1 DEF IInv, TypeOK, Underway
  <2> QED  BY <1>2, <2>1, <2>2 DEF ClockInv
<1>7. RecordedBytesAreItsOwn'
  BY DEF IInv, RecordedBytesAreItsOwn
<1> QED  BY <1>3, <1>4, <1>5, <1>6, <1>7 DEF IInv

\* Steps of a call that is under way and goes on, with the parse, the clock and
\* the deadline as they were.
CallGoesOn ==
  /\ call # "none" /\ call' \in Stages
  /\ UNCHANGED <<parse, active, clock, left, elapsed>>

LEMMA CallStepInv ==
  ASSUME IInv, CallGoesOn, CallInv',
         ptr' \in Pointers \cup {0}, mem' \in MemoryContents, output' \in MemoryContents,
         result' \in {result, "ok", "error"}
  PROVE  IInv'
<1> USE DEF CallGoesOn, parse, clock
<1>1. TypeOK'
  BY DEF IInv, TypeOK
<1>2. LoopInv'
  BY DEF IInv, LoopInv, Stages, Answering
<1>3. ClockInv'
  BY DEF IInv, ClockInv, Underway
<1>4. RecordedBytesAreItsOwn'
  BY DEF IInv, RecordedBytesAreItsOwn
<1> QED  BY <1>1, <1>2, <1>3, <1>4 DEF IInv

LEMMA GuestInv == ASSUME IInv, Guest  PROVE IInv'
<1> USE DEF guest, CallGoesOn, Stages, Answering
<1>1. CASE Instantiated \/ Deallocated
  <2>1. CallGoesOn /\ UNCHANGED <<guest, result>>
    BY <1>1 DEF Instantiated, Deallocated
  <2>2. CallInv'
    BY <1>1 DEF IInv, CallInv, Instantiated, Deallocated, parse
  <2> QED  BY <2>1, <2>2, CallStepInv DEF IInv, TypeOK
<1>2. ASSUME NEW p \in Pointers, Allocated(p)  PROVE IInv'
  <2>1. CallGoesOn /\ ptr' \in Pointers \cup {0} /\ UNCHANGED <<mem, output, result>>
    BY <1>2 DEF Allocated
  <2>2. CallInv'
    BY <1>2 DEF IInv, CallInv, Allocated, parse
  <2> QED  BY <2>1, <2>2, CallStepInv DEF IInv, TypeOK
<1>3. ASSUME NEW what \in {"scrambled", "plain", "junk"}, GuestDescrambles(what)  PROVE IInv'
  <2>1. CallGoesOn /\ UNCHANGED <<ptr, output, result>>
    BY <1>3 DEF GuestDescrambles
  <2>2. mem.owner \in Blocks /\ mem.owner = blk
    BY <1>3 DEF GuestDescrambles, IInv, CallInv, LoopInv, TypeOK, Blocks
  <2>3. mem' \in MemoryContents /\ mem'.owner = blk
    <3>1. mem \in [owner : Blocks, state : {"scrambled", "plain", "junk"}]
      BY <2>2 DEF IInv, TypeOK, MemoryContents, Zeroed, Blocks
    <3> QED  BY <1>3, <2>2, <3>1 DEF GuestDescrambles, MemoryContents
  <2>4. CallInv'
    BY <1>3, <2>3 DEF IInv, CallInv, GuestDescrambles, parse
  <2> QED  BY <2>1, <2>3, <2>4, CallStepInv DEF IInv, TypeOK
<1>4. CASE GuestFails
  <2>1. CallGoesOn /\ UNCHANGED guest /\ result' = "error"
    BY <1>4 DEF GuestFails, GiveUp
  <2>2. CallInv'
    BY <1>4 DEF CallInv, GuestFails, GiveUp
  <2> QED  BY <2>1, <2>2, CallStepInv DEF IInv, TypeOK
<1> QED  BY <1>1, <1>2, <1>3, <1>4 DEF Guest

LEMMA CallingInv == ASSUME IInv, Calling  PROVE IInv'
<1> USE DEF guest, CallGoesOn, Stages, Answering
<1>1. CASE WritePayload
  <2>1. blk \in Blocks
    BY <1>1 DEF WritePayload, IInv, TypeOK, LoopInv, Blocks
  <2>2. /\ CallGoesOn /\ UNCHANGED <<ptr, output, result>>
        /\ mem' \in MemoryContents /\ mem'.owner = blk
    BY <1>1, <2>1 DEF WritePayload, MemoryContents
  <2>3. CallInv'
    BY <1>1, <2>2 DEF IInv, CallInv, WritePayload, parse
  <2> QED  BY <2>2, <2>3, CallStepInv DEF IInv, TypeOK
<1>2. CASE WriteRefused
  <2>1. CallGoesOn /\ UNCHANGED guest /\ result' = "error"
    BY <1>2 DEF WriteRefused, GiveUp
  <2>2. CallInv'
    BY <1>2 DEF CallInv, WriteRefused, GiveUp
  <2> QED  BY <2>1, <2>2, CallStepInv DEF IInv, TypeOK
<1>3. CASE WritePanics
  <2> USE <1>3 DEF WritePanics, clock, parse
  <2>1. result' = "none"
    BY DEF IInv, CallInv, TypeOK
  <2>2. TypeOK'
    BY DEF IInv, TypeOK
  <2>3. LoopInv' /\ CallInv' /\ ClockInv'
    BY <2>1 DEF IInv, LoopInv, CallInv, ClockInv
  <2>4. RecordedBytesAreItsOwn'
    BY DEF IInv, RecordedBytesAreItsOwn
  <2> QED  BY <2>2, <2>3, <2>4 DEF IInv
<1>4. CASE ReadOutput
  <2>1. CallGoesOn /\ UNCHANGED <<ptr, mem>> /\ output' = mem /\ result' = "ok"
    BY <1>4 DEF ReadOutput
  <2>2. CallInv'
    BY <1>4 DEF IInv, CallInv, ReadOutput, parse
  <2> QED  BY <2>1, <2>2, CallStepInv DEF IInv, TypeOK
<1>5. CASE EndCall
  BY <1>5, EndCallInv
<1> QED  BY <1>1, <1>2, <1>3, <1>4, <1>5 DEF Calling

(***************************************************************************)
(* The deadline is reached when every tick was counted: the time that      *)
(* went by is then at least that of all of them but one.                   *)
(***************************************************************************)
LEMMA InterruptInv == ASSUME IInv, Interrupt  PROVE IInv'
<1> USE DEF Interrupt, GiveUp, parse, clock, guest
<1>1. timeout \in Nat /\ elapsed \in Nat /\ call # "none"
  BY DEF IInv, TypeOK, Answering
<1>2. TypeOK' /\ LoopInv' /\ RecordedBytesAreItsOwn'
  BY DEF IInv, TypeOK, LoopInv, RecordedBytesAreItsOwn, Stages, Answering
<1>3. CallInv'
  BY DEF IInv, CallInv, Answering
<1>4. elapsed > timeout - 2 * Period
  <2>1. CASE elapsed >= timeout
    BY <1>1, <2>1
  <2>2. CASE elapsed < timeout
    <3>1. /\ Ticks(timeout) \in Nat \ {0}
          /\ timeout < Ticks(timeout) * Period + Period
      BY <1>1, TicksFact
    <3>2. elapsed >= (Ticks(timeout) - 0 - 1) * Period + Underway
      BY <1>1, <2>2 DEF IInv, ClockInv
    <3>3. Underway >= 0 /\ Underway \in Int
      BY DEF IInv, TypeOK, Underway
    <3>4. (Ticks(timeout) - 0 - 1) * Period = Ticks(timeout) * Period - Period
      BY <3>1
    <3> QED  BY <1>1, <3>1, <3>2, <3>3, <3>4
  <2> QED  BY <1>1, <2>1, <2>2
<1>5. ClockInv'
  <2>1. UNCHANGED <<timeout, left, elapsed, Underway>>
    BY DEF Underway
  <2>2. result' = "timeout" => elapsed' > timeout' - 2 * Period
    BY <1>4, <2>1
  <2>3. call' # "none" =>
          /\ left' <= Ticks(timeout)'
          /\ elapsed' < timeout' =>
               elapsed' >= (Ticks(timeout)' - left' - 1) * Period + Underway'
    BY <1>1 DEF IInv, ClockInv, Underway
  <2> QED  BY <2>2, <2>3 DEF ClockInv
<1> QED  BY <1>2, <1>3, <1>5 DEF IInv

----------------------------------------------------------------------------
\* The ticker thread and time.

\* What a step of the clock leaves alone.
ClockOnly == UNCHANGED <<parse, active, call, guest, result>>

LEMMA ClockStepInv ==
  ASSUME IInv, ClockOnly, ClockInv', ticker' \in {"none", "check", "sleep", "ended"},
         slept' \in 0 .. Period, left' \in Nat, elapsed' \in Nat
  PROVE  IInv'
<1> USE DEF ClockOnly, parse, guest
<1>1. TypeOK' /\ LoopInv' /\ CallInv' /\ RecordedBytesAreItsOwn'
  BY DEF IInv, TypeOK, LoopInv, CallInv, RecordedBytesAreItsOwn
<1> QED  BY <1>1 DEF IInv

LEMMA TickerChecksInv == ASSUME IInv, TickerChecks  PROVE IInv'
<1> USE DEF TickerChecks, store
<1>1. ClockInv'
  BY DEF IInv, ClockInv, Underway, parse
<1> QED  BY <1>1, ClockStepInv DEF ClockOnly, IInv, TypeOK

(***************************************************************************)
(* A tick that was slept to its end is counted.                            *)
(***************************************************************************)
LEMMA TickInv == ASSUME IInv, Tick  PROVE IInv'
<1> USE DEF Tick
<1>1. timeout \in Nat /\ elapsed \in Nat /\ left \in Nat /\ timeout' = timeout
  BY DEF IInv, TypeOK, parse
<1>2. Ticks(timeout) \in Nat \ {0}
  BY <1>1, TicksFact
<1>3. left' \in Nat /\ left' <= left /\ left' >= left - 1
  BY <1>1 DEF OneEpochLess
<1>4. Underway = Period /\ Underway' = 0
  BY DEF Underway
<1>5. ASSUME call # "none", elapsed < timeout
      PROVE  elapsed >= (Ticks(timeout) - left' - 1) * Period
  <2>1. elapsed >= (Ticks(timeout) - left - 1) * Period + Period
    BY <1>4, <1>5 DEF IInv, ClockInv
  <2>2. (Ticks(timeout) - left - 1) * Period + Period = (Ticks(timeout) - left) * Period
    BY <1>1, <1>2
  <2>3. (Ticks(timeout) - left) * Period >= (Ticks(timeout) - left' - 1) * Period
    BY <1>1, <1>2, <1>3
  <2>4. /\ (Ticks(timeout) - left) * Period \in Int
        /\ (Ticks(timeout) - left' - 1) * Period \in Int
    BY <1>1, <1>2, <1>3
  <2> QED  BY <1>1, <2>1, <2>2, <2>3, <2>4
<1>6. ClockInv'
  <2>1. /\ (Ticks(timeout) - left' - 1) * Period \in Int
        /\ left' <= Ticks(timeout) \/ call = "none"
    BY <1>1, <1>2, <1>3 DEF IInv, ClockInv
  <2> QED  BY <1>1, <1>4, <1>5, <2>1 DEF IInv, ClockInv
<1> QED  BY <1>3, <1>6, ClockStepInv DEF ClockOnly, IInv, TypeOK

LEMMA PassInv == ASSUME IInv, Pass  PROVE IInv'
<1> USE DEF Pass, store
<1>1. /\ timeout \in Nat /\ elapsed \in Nat /\ left \in Nat /\ slept \in 0 .. Period
      /\ UNCHANGED <<timeout, left, call, result>>
  BY DEF IInv, TypeOK, parse
<1>2. slept' \in 0 .. Period /\ elapsed' \in Nat /\ elapsed' >= elapsed
  BY <1>1
<1>3. Underway \in Nat /\ Underway' \in Nat /\ Underway' <= Underway + 1
  BY <1>1 DEF Underway
<1>4. ClockInv'
  <2>1. ASSUME call # "none", elapsed' < timeout
        PROVE  elapsed' >= (Ticks(timeout) - left - 1) * Period + Underway'
    <3> DEFINE counted == (Ticks(timeout) - left - 1) * Period
    <3>1. counted \in Int
      BY <1>1, TicksFact
    <3>2. elapsed' = elapsed + 1 /\ elapsed < timeout
      BY <1>1, <2>1
    <3>3. elapsed >= counted + Underway
      BY <2>1, <3>2 DEF IInv, ClockInv
    <3> HIDE DEF counted
    <3>4. elapsed' >= counted + Underway'
      BY <1>1, <1>3, <3>1, <3>2, <3>3 DEF Underway
    <3> QED  BY <3>4 DEF counted
  <2>2. result = "timeout" => elapsed' > timeout - 2 * Period
    BY <1>1, <1>2 DEF IInv, ClockInv
  <2> QED  BY <1>1, <2>1, <2>2 DEF IInv, ClockInv
<1> QED  BY <1>2, <1>4, ClockStepInv DEF ClockOnly, IInv, TypeOK

LEMMA StutterInv == ASSUME IInv, UNCHANGED vars  PROVE IInv'
<1> USE DEF vars, parse, clock, store, guest
<1>1. ClockOnly /\ ClockInv' /\ UNCHANGED <<ticker, slept, left, elapsed>>
  BY DEF IInv, ClockInv, Underway, ClockOnly
<1> QED  BY <1>1, ClockStepInv DEF IInv, TypeOK

----------------------------------------------------------------------------
\* The theorems.

(***************************************************************************)
(* IInv holds in every reachable state, whatever the guest answers and     *)
(* however the parse, the ticker and time take turns.                      *)
(***************************************************************************)
THEOREM Invariance == Spec => []IInv
<1>1. IInv /\ [Next]_vars => IInv'
  <2> SUFFICES ASSUME IInv, [Next]_vars  PROVE IInv'
    OBVIOUS
  <2>1. CASE Loading \/ Looping
    BY <2>1, PhaseInv, KeepPlainInv, BeginCallInv DEF Loading, Looping
  <2>2. CASE Calling \/ Guest \/ Interrupt
    BY <2>2, CallingInv, GuestInv, InterruptInv
  <2>3. CASE TickerChecks \/ Tick \/ Pass
    BY <2>3, TickerChecksInv, TickInv, PassInv
  <2>4. CASE UNCHANGED vars
    BY <2>4, StutterInv
  <2> QED  BY <2>1, <2>2, <2>3, <2>4 DEF Next
<1> QED  BY <1>1, InitInv, PTL DEF Spec

(***************************************************************************)
(* Every variable keeps its type (sandbox/src, parse_case).                *)
(***************************************************************************)
THEOREM TypeCorrect == Spec => []TypeOK
<1>1. IInv => TypeOK  BY DEF IInv
<1> QED  BY <1>1, Invariance, PTL

(***************************************************************************)
(* The watchdog never fires two ticks or more before the time a call was   *)
(* given is over (set_epoch_deadline, the ticker loop).                    *)
(***************************************************************************)
THEOREM WatchdogIsPatient == Spec => []NotInterruptedEarly
<1>1. IInv => NotInterruptedEarly
  BY DEF IInv, ClockInv, NotInterruptedEarly
<1> QED  BY <1>1, Invariance, PTL

(***************************************************************************)
(* What is recorded of a descrambled block comes from where its own        *)
(* payload was written (descramble, parse_case).                           *)
(***************************************************************************)
THEOREM BlocksKeepTheirOwnBytes == Spec => []RecordedBytesAreItsOwn
<1>1. IInv => RecordedBytesAreItsOwn  BY DEF IInv
<1> QED  BY <1>1, Invariance, PTL

(***************************************************************************)
(* A parse that ends well has decided every block (parse_case).            *)
(***************************************************************************)
THEOREM ParseDecidesEveryBlock == Spec => []EveryBlockDecided
<1>1. IInv => EveryBlockDecided
  BY DEF IInv, TypeOK, LoopInv, EveryBlockDecided, Blocks
<1> QED  BY <1>1, Invariance, PTL
=============================================================================
