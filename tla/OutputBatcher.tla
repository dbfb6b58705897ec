---------------------------- MODULE OutputBatcher ----------------------------
(***************************************************************************)
(* TerminalDataBatcher (set.ts:408-464) of one terminal, with the callers  *)
(* that drive it: the PTY's onData and onExit handlers (789-815), remove() *)
(* (975-990) and cleanup() (995-1003).  Everything runs on the event loop, *)
(* so each handler is one atomic step; the 10 ms timer is a step of its   *)
(* own that may come at any later time.                                   *)
(*                                                                         *)
(* The state starts right after create() registered the terminal (774).   *)
(* A chunk of PTY output is named by its position in the output and has a *)
(* size; buffer.length is the sum of the sizes buffered.                   *)
(***************************************************************************)
EXTENDS Naturals, Sequences

CONSTANTS
    MaxBuffer,   \* MAX_BUFFER_SIZE
    Sizes,       \* the sizes of the chunks node-pty delivers
    MaxPushes    \* the chunks the PTY produces in a behaviour

ASSUME Sizes \subseteq 1..MaxBuffer

VARIABLES
    buffer,      \* the chunks in this.buffer
    bufLen,      \* this.buffer.length
    timer,       \* this.timer is set
    pushed,      \* the chunks the PTY delivered so far
    sent,        \* the chunks the data events carried, in order
    registered,  \* the terminal is in this.sessions
    proc,        \* the Zellij client: "running", "killed" (SIGTERM sent), "exited"
    late         \* a data event was emitted for a terminal already removed

vars == <<buffer, bufLen, timer, pushed, sent, registered, proc, late>>

Init ==
    /\ buffer = <<>>
    /\ bufLen = 0
    /\ timer = FALSE
    /\ pushed = 0
    /\ sent = <<>>
    /\ registered = TRUE
    /\ proc = "running"
    /\ late = FALSE

(* flush() (441-452): clear the timer; emit the buffer if it is not empty. *)
(* The data event goes out whether or not the terminal is still           *)
(* registered.                                                             *)
Flush ==
    /\ timer' = FALSE
    /\ buffer' = <<>>
    /\ bufLen' = 0
    /\ sent' = sent \o buffer
    /\ late' = (late \/ (buffer # <<>> /\ ~registered))

(* Mutant: destroy() before flush() drops what was buffered.              *)
DestroyThenFlush ==
    /\ timer' = FALSE
    /\ buffer' = <<>>
    /\ bufLen' = 0
    /\ UNCHANGED <<sent, late>>

(* flush() then destroy() (457-463): destroy clears a timer and the buffer *)
(* flush just emptied.                                                     *)
FlushAndDestroy == Flush

(* push() (421-436) of a chunk of size s.                                  *)
Push(s) ==
    LET buf == Append(buffer, pushed + 1) IN
    IF bufLen + s >= MaxBuffer
    THEN /\ timer' = FALSE
         /\ buffer' = <<>>
         /\ bufLen' = 0
         /\ sent' = sent \o buf
         /\ late' = (late \/ ~registered)
    ELSE /\ buffer' = buf
         /\ bufLen' = bufLen + s
         /\ timer' = TRUE
         /\ UNCHANGED <<sent, late>>

(* node-pty delivers output until the process has exited; a client sent   *)
(* SIGTERM may still write before it ends.                                 *)
OnData(s) ==
    /\ proc \in {"running", "killed"}
    /\ pushed < MaxPushes
    /\ Push(s)
    /\ pushed' = pushed + 1
    /\ UNCHANGED <<registered, proc>>

(* The DATA_BATCH_INTERVAL_MS timer calls flush().                         *)
TimerFires ==
    /\ timer
    /\ Flush
    /\ UNCHANGED <<pushed, registered, proc>>

(* remove(id) (975-990): flush, destroy, SIGTERM, delete.                  *)
Remove ==
    /\ registered
    /\ FlushAndDestroy
    /\ proc' = IF proc = "running" THEN "killed" ELSE proc
    /\ registered' = FALSE
    /\ UNCHANGED pushed

(* cleanup() (995-1003) does the same for every terminal and then clears  *)
(* the map.                                                                *)
Cleanup ==
    /\ registered
    /\ FlushAndDestroy
    /\ proc' = IF proc = "running" THEN "killed" ELSE proc
    /\ registered' = FALSE
    /\ UNCHANGED pushed

(* onExit (797-815): flush, destroy, delete (a no-op after remove), emit  *)
(* the exit event.                                                         *)
PtyExit ==
    /\ proc \in {"running", "killed"}
    /\ FlushAndDestroy
    /\ proc' = "exited"
    /\ registered' = FALSE
    /\ UNCHANGED pushed

Next ==
    \/ \E s \in Sizes : OnData(s)
    \/ TimerFires
    \/ Remove
    \/ Cleanup
    \/ PtyExit

(* setTimeout fires; nothing forces the PTY to print, exit or be removed.  *)
Spec == Init /\ [][Next]_vars /\ WF_vars(TimerFires)

-----------------------------------------------------------------------------
TypeOK ==
    /\ buffer \in Seq(1..MaxPushes)
    /\ bufLen \in 0..MaxBuffer
    /\ timer \in BOOLEAN
    /\ pushed \in 0..MaxPushes
    /\ sent \in Seq(1..MaxPushes)
    /\ registered \in BOOLEAN
    /\ proc \in {"running", "killed", "exited"}
    /\ late \in BOOLEAN

(* The data events of the terminal carry the PTY's output exactly: in     *)
(* order, nothing lost by remove()/cleanup()/onExit destroying the        *)
(* batcher, nothing twice, and every chunk eventually (the timer).        *)
Stream == INSTANCE BatchedStream WITH in <- [i \in 1..pushed |-> i], out <- sent

StreamRefined == Stream!Spec

(* Spec 3: destruction releases the batcher so no timer leaks.  No data  *)
(* event is emitted for a terminal after remove() deleted it.             *)
NoDataAfterRemove == ~late
=============================================================================
