------------------------------- MODULE Sandbox -------------------------------
(***************************************************************************)
(* sandbox/src and the descrambling loop of parse_case (parser/src).  A    *)
(* PluginHost starts an epoch ticker thread; the plugin loaded through it  *)
(* outlives it; each scrambled block is handed to a fresh instance of the  *)
(* guest under an epoch deadline.  The guest may return anything, trap, or *)
(* never return.                                                           *)
(*                                                                         *)
(* Time passes in units of half a tick, driven by nobody.  The epoch of    *)
(* the engine and the deadline of a store are kept as their difference.    *)
(***************************************************************************)
EXTENDS Integers, Sequences

CONSTANTS
  Period,      \* units of time between two ticks (10 ms)
  Timeouts,    \* the values limits.timeout_ms can have, in units of time
  NBlocks,     \* blocks of the evidence
  PayloadLen,  \* bytes of a scrambled payload
  MemorySize,  \* bytes of guest memory
  Pointers     \* what allocate may return: i32 values

ASSUME PeriodAssumption == Period \in Nat \ {0}
ASSUME TimeoutsAssumption == Timeouts \subseteq Nat
ASSUME NBlocksAssumption == NBlocks \in Nat
ASSUME SizesAssumption == PayloadLen \in Nat \ {0} /\ MemorySize \in Nat /\ Pointers \subseteq Int

VARIABLES
  kind,       \* kind[k]: block k is "clear", "scrambled" or "short"
  phase,      \* of the parse: "load", "loop", "done", "failed" or "panicked"
  plugin,     \* a descrambler was loaded
  timeout,    \* its limits.timeout_ms
  blk,        \* block_index, from 1
  record,     \* record[k]: what the parse knows of block k, NoRecord before
  active,     \* _ticker_active, shared by the host and its ticker thread
  ticker,     \* the ticker thread: "none", "check", "sleep" or "ended"
  slept,      \* how long it has slept
  call,       \* where descramble() stands: a stage, or "none"
  left,       \* epochs left before the deadline of the store, at least 0
  elapsed,    \* history: time since the deadline was set (capped at timeout)
  ptr,        \* guest_ptr
  mem,        \* what the instance holds at guest_ptr: [owner, state]
  output,     \* result_bytes: what was read back from there
  result      \* of the call: "none", "ok", "error" or "timeout"

parse  == <<kind, phase, plugin, timeout, blk, record>>
clock  == <<ticker, slept>>
guest  == <<ptr, mem, output>>
store  == <<call, left, guest, result>>
vars   == <<parse, active, clock, store, elapsed>>

Blocks == 1 .. NBlocks

\* The stages of descramble() that run code of the guest, whose failure fails
\* the call.  deallocate runs guest code too, its failure is ignored.
Answering == {"instantiate", "allocate", "descramble"}
Stages == Answering \cup {"write", "read", "deallocate", "return"}

NoRecord == [descrambled |-> FALSE, known |-> FALSE]
Plain    == [descrambled |-> FALSE, known |-> TRUE]
Descrambled(m) == [descrambled |-> TRUE, known |-> TRUE, hash |-> m]

\* A fresh linear memory belongs to no block yet.
Zeroed == [owner |-> 0, state |-> "zero"]
MemoryContents ==
  {Zeroed} \cup [owner : Blocks, state : {"scrambled", "plain", "junk"}]

----------------------------------------------------------------------------
\* timeout_ms / 10, but at least one tick.
Ticks(t) == IF t \div Period >= 1 THEN t \div Period ELSE 1

Init ==
  /\ kind \in [Blocks -> {"clear", "scrambled", "short"}]
  /\ phase = "load"
  /\ plugin = FALSE
  /\ timeout \in Timeouts
  /\ blk = 1
  /\ record = [k \in Blocks |-> NoRecord]
  /\ active = FALSE
  /\ ticker = "none"
  /\ slept = 0
  /\ call = "none"
  /\ left = 0
  /\ elapsed = 0
  /\ ptr = 0
  /\ mem = Zeroed
  /\ output = Zeroed
  /\ result = "none"

\* Mutant: the host stops its ticker when it is dropped.
StopOnDrop(flag) == FALSE

\* PluginHost has no Drop: the flag its ticker looks at stays as it is when
\* the host goes out of scope.
FlagAfterDrop(flag) == flag

\* PluginHost::new starts the ticker, the plugin is compiled (or is not, which
\* is only a warning), and the host goes out of scope.
LoadPlugin ==
  /\ phase = "load"
  /\ active' = FlagAfterDrop(TRUE)
  /\ ticker' = "check"
  /\ plugin' \in BOOLEAN
  /\ phase' = "loop"
  /\ UNCHANGED <<kind, timeout, blk, record, slept, store, elapsed>>

\* The grammar names no plugin, its file is not found, or the host cannot be
\* made: the parse goes on without one.
LoadNone ==
  /\ phase = "load"
  /\ phase' = "loop"
  /\ UNCHANGED <<kind, plugin, timeout, blk, record, active, clock, store, elapsed>>


----------------------------------------------------------------------------
\* The block loop of parse_case.

\* Mutant: the last block is left out.
LastLeftOut == blk < NBlocks

\* block_index < manifest.block_count
BlocksLeft == blk <= NBlocks

\* Block k is done with: what is known of it is kept, the loop goes on.
Keep(r) ==
  /\ record' = [record EXCEPT ![blk] = r]
  /\ blk' = blk + 1
  /\ UNCHANGED <<kind, phase, plugin, timeout>>

\* interpret_block fails on a block shorter than its header: the whole parse
\* is given up.
InterpretFails ==
  /\ phase = "loop" /\ call = "none" /\ BlocksLeft
  /\ kind[blk] = "short"
  /\ phase' = "failed"
  /\ UNCHANGED <<kind, plugin, timeout, blk, record, active, clock, store, elapsed>>

\* A block that is not scrambled (or whose payload leaves the block), or no
\* plugin to descramble it.
KeepPlain ==
  /\ phase = "loop" /\ call = "none" /\ BlocksLeft
  /\ \/ kind[blk] = "clear"
     \/ kind[blk] = "scrambled" /\ ~plugin
  /\ Keep(Plain)
  /\ UNCHANGED <<active, clock, store, elapsed>>

LoopEnds ==
  /\ phase = "loop" /\ call = "none" /\ ~BlocksLeft
  /\ phase' = "done"
  /\ UNCHANGED <<kind, plugin, timeout, blk, record, active, clock, store, elapsed>>

\* Mutant: the store, and its deadline, is kept from call to call.
OldDeadline == IF blk = 1 THEN Ticks(timeout) ELSE left

\* set_epoch_deadline: counted from the epoch of the engine now.
Deadline == Ticks(timeout)

\* descramble() is entered: a new Store, a new deadline, a new instance.
BeginCall ==
  /\ phase = "loop" /\ call = "none" /\ BlocksLeft
  /\ kind[blk] = "scrambled" /\ plugin
  /\ call' = "instantiate"
  /\ left' = Deadline
  /\ elapsed' = 0
  /\ ptr' = 0
  /\ mem' = Zeroed
  /\ UNCHANGED <<parse, active, clock, output, result>>

----------------------------------------------------------------------------
\* One call of descramble().

\* The call fails: the rest of it is not run.
GiveUp(why) ==
  /\ call' = "return"
  /\ result' = why
  /\ UNCHANGED <<left, guest>>

\* The instance is there, with the exports the host needs.
Instantiated ==
  /\ call = "instantiate"
  /\ call' = "allocate"
  /\ UNCHANGED <<parse, active, clock, left, guest, result, elapsed>>

\* allocate returns p.
Allocated(p) ==
  /\ call = "allocate"
  /\ ptr' = p
  /\ call' = "write"
  /\ UNCHANGED <<parse, active, clock, left, mem, output, result, elapsed>>

\* guest_ptr as usize: a negative pointer becomes one so large that adding the
\* payload length overflows.  The addition panics, or (without overflow
\* checks) wraps and the slice behind the bound check panics.
Overflows == ptr < 0 /\ ptr + PayloadLen >= 0
InMemory  == ptr >= 0 /\ ptr + PayloadLen <= MemorySize

WritePayload ==
  /\ call = "write" /\ InMemory
  /\ mem' = [owner |-> blk, state |-> "scrambled"]
  /\ call' = "descramble"
  /\ UNCHANGED <<parse, active, clock, left, ptr, output, result, elapsed>>

WriteRefused ==
  /\ call = "write" /\ ~InMemory /\ ~Overflows
  /\ GiveUp("error")
  /\ UNCHANGED <<parse, active, clock, elapsed>>

WritePanics ==
  /\ call = "write" /\ Overflows
  /\ phase' = "panicked"
  /\ call' = "none"
  /\ UNCHANGED <<kind, plugin, timeout, blk, record, active, clock, left, guest, result,
                 elapsed>>

\* descramble returns 0 and leaves whatever it likes in its memory.
GuestDescrambles(what) ==
  /\ call = "descramble"
  /\ mem' = [mem EXCEPT !.state = what]
  /\ call' = "read"
  /\ UNCHANGED <<parse, active, clock, left, ptr, output, result, elapsed>>

\* A missing export, a trap, a memory that must not grow, a non-zero return.
GuestFails ==
  /\ call \in Answering
  /\ GiveUp("error")
  /\ UNCHANGED <<parse, active, clock, elapsed>>

\* The output is copied out before the guest runs again in deallocate.
ReadOutput ==
  /\ call = "read"
  /\ output' = mem
  /\ result' = "ok"
  /\ call' \in {"deallocate", "return"}
  /\ UNCHANGED <<parse, active, clock, left, ptr, mem, elapsed>>

\* deallocate returns or traps: either is ignored.
Deallocated ==
  /\ call = "deallocate"
  /\ call' = "return"
  /\ UNCHANGED <<parse, active, clock, left, guest, result, elapsed>>

\* The guest finds the deadline passed at a loop or a function entry.
Interrupt ==
  /\ left = 0
  /\ \/ call \in Answering /\ GiveUp("timeout")
     \/ call = "deallocate" /\ call' = "return" /\ UNCHANGED <<left, guest, result>>
  /\ UNCHANGED <<parse, active, clock, elapsed>>

\* Mutant: a failed block is recorded with the bytes of the last good one.
RecordAnyway == Descrambled(output)

\* A failed call is a warning: the block stays scrambled.
RecordOf == IF result = "ok" THEN Descrambled(output) ELSE Plain

\* descramble() has returned to the loop.
EndCall ==
  /\ call = "return"
  /\ Keep(RecordOf)
  /\ call' = "none"
  /\ result' = "none"
  /\ UNCHANGED <<active, clock, left, guest, elapsed>>

----------------------------------------------------------------------------
\* The ticker thread, and time.

TickerChecks ==
  /\ ticker = "check"
  /\ ticker' = IF active THEN "sleep" ELSE "ended"
  /\ slept' = 0
  /\ UNCHANGED <<parse, active, store, elapsed>>

\* Mutant: the epoch runs past the deadline, and the difference below zero.
PastDeadline == left - 1

\* A deadline that has passed stays passed.
OneEpochLess == IF left = 0 THEN 0 ELSE left - 1

\* thread::sleep has slept its time, or longer; increment_epoch.
Tick ==
  /\ ticker = "sleep" /\ slept = Period
  /\ left' = OneEpochLess
  /\ ticker' = "check"
  /\ UNCHANGED <<parse, active, slept, call, guest, result, elapsed>>

\* External: a unit of time passes.
Pass ==
  /\ slept' = IF ticker = "sleep" /\ slept < Period THEN slept + 1 ELSE slept
  /\ elapsed' = IF call # "none" /\ elapsed < timeout THEN elapsed + 1 ELSE elapsed
  /\ UNCHANGED <<parse, active, ticker, store>>

Loading  == LoadPlugin \/ LoadNone
Looping  == InterpretFails \/ KeepPlain \/ LoopEnds \/ BeginCall
Calling  == WritePayload \/ WriteRefused \/ WritePanics \/ ReadOutput \/ EndCall
Guest    ==
  \/ Instantiated
  \/ \E p \in Pointers : Allocated(p)
  \/ \E what \in {"scrambled", "plain", "junk"} : GuestDescrambles(what)
  \/ GuestFails
  \/ Deallocated

Next == Loading \/ Looping \/ Calling \/ Guest \/ Interrupt \/ TickerChecks \/ Tick \/ Pass

Spec == Init /\ [][Next]_vars

\* The threads run and time passes.  The guest owes nothing: it may loop for
\* ever, but a loop runs into the check of the deadline (Interrupt).
Fairness ==
  /\ WF_vars(Loading)
  /\ WF_vars(Looping)
  /\ WF_vars(Calling)
  /\ WF_vars(Interrupt)
  /\ WF_vars(TickerChecks)
  /\ WF_vars(Tick)
  /\ WF_vars(Pass)

FairSpec == Spec /\ Fairness

----------------------------------------------------------------------------
\* Properties.

TypeOK ==
  /\ kind \in [Blocks -> {"clear", "scrambled", "short"}]
  /\ phase \in {"load", "loop", "done", "failed", "panicked"}
  /\ plugin \in BOOLEAN
  /\ timeout \in Timeouts
  /\ blk \in 1 .. NBlocks + 1
  /\ DOMAIN record = Blocks
  /\ \A k \in Blocks :
       record[k] \in {NoRecord, Plain} \cup {Descrambled(m) : m \in MemoryContents}
  /\ active \in BOOLEAN
  /\ ticker \in {"none", "check", "sleep", "ended"}
  /\ slept \in 0 .. Period
  /\ call \in Stages \cup {"none"}
  /\ left \in Nat
  /\ elapsed \in Nat
  /\ ptr \in Pointers \cup {0}
  /\ mem \in MemoryContents
  /\ output \in MemoryContents
  /\ result \in {"none", "ok", "error", "timeout"}

(***************************************************************************)
(* The watchdog does not fire early: a call is interrupted only when less  *)
(* than two ticks of the time it was given were left, one for the rounding *)
(* of timeout_ms / 10 and one for a tick under way when the deadline was   *)
(* set.  No earlier block, however slow, eats from the time of a later one *)
(* (set_epoch_deadline, the ticker loop).                                  *)
(***************************************************************************)
NotInterruptedEarly ==
  result = "timeout" => elapsed > timeout - 2 * Period

(***************************************************************************)
(* A block is recorded as descrambled only from a call of its own that     *)
(* ended well, with the bytes the guest left where ITS payload had been    *)
(* written: never zeroes, never what another block left behind (parse_case *)
(* and descramble).                                                        *)
(***************************************************************************)
RecordedBytesAreItsOwn ==
  \A k \in Blocks : record[k].descrambled =>
    /\ kind[k] = "scrambled"
    /\ record[k].hash.owner = k

(***************************************************************************)
(* The parse comes to an end of its own whatever the guest does, a guest   *)
(* that never returns in instantiation, allocate, descramble or deallocate *)
(* included: the ticker outlives the PluginHost that started it            *)
(* (PluginHost::new).  A panic of the host is no such end; what is asked   *)
(* of the guest is that no pointer it hands out lies just below zero.      *)
(***************************************************************************)
ParseEnds == []~Overflows => <>(phase \in {"done", "failed"})

(***************************************************************************)
(* "Host process is isolated from guest panics, infinite loops, and traps" *)
(* (sandbox/src/lib.rs:139): no guest ends the program.  The bound check   *)
(* of descramble() does not keep this promise.                             *)
(***************************************************************************)
HostSurvivesGuests == phase # "panicked"

(***************************************************************************)
(* A parse that ends well has decided every block, in spite of every call  *)
(* that failed, was interrupted or had nothing to call.                    *)
(***************************************************************************)
EveryBlockDecided ==
  phase = "done" => \A k \in Blocks : record[k].known
=============================================================================
