---------------------------- MODULE TracerStack -----------------------------
(***************************************************************************)
(* What the design note promises of stacked context managers, for one kind *)
(* of tracer: they form a stack, a new one suspends the previous one, and  *)
(* when it goes out of scope the previous one, if any, is restored.  Only  *)
(* the tracer on top of the stack is the one the interpreter calls, so     *)
(* only one log is written at a time.                                      *)
(*                                                                         *)
(* ProfileTraceStack and ReferenceTracing implement this specification.    *)
(***************************************************************************)
EXTENDS Integers, Sequences

CONSTANTS Tracers,   (* the tracers (log files) that can be stacked          *)
          NoTracer   (* what the interpreter calls when there is no tracer   *)

VARIABLES stack,     (* the stacked tracers, outermost first                 *)
          calling    (* the tracer the interpreter calls on every event      *)

vars == <<stack, calling>>

Stacked(w) == \E i \in 1 .. Len(stack) : stack[i] = w

Top(s) == IF s = <<>> THEN NoTracer ELSE s[Len(s)]

Init == /\ stack = <<>>
        /\ calling = NoTracer

\* A with block is entered: the new tracer is the one that is called.
Begin(w) == /\ ~ Stacked(w)
            /\ stack' = Append(stack, w)
            /\ calling' = w

\* The innermost with block is left: the previous tracer is called again.
End == /\ stack # <<>>
       /\ stack' = SubSeq(stack, 1, Len(stack) - 1)
       /\ calling' = Top(stack')

Next == End \/ \E w \in Tracers : Begin(w)

Spec == Init /\ [][Next]_vars

(***************************************************************************)
(* The reference tracers can also be stopped and started where they are.   *)
(***************************************************************************)
Pause == /\ calling' = NoTracer
         /\ stack' = stack

Resume == /\ stack # <<>>
          /\ calling' = Top(stack)
          /\ stack' = stack

PausableSpec == Init /\ [][Next \/ Pause \/ Resume]_vars

=============================================================================
