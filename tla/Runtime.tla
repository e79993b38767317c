------------------------------ MODULE Runtime -------------------------------
(***************************************************************************)
(* src/coroutine/src/runtime.rs, yield_now.rs, guard.rs and                *)
(* stack/unix/overflow.rs.  The contexts of the generators running on a    *)
(* thread are linked: root.parent is the top, root.child the outermost     *)
(* one.  A generator may resume another one; a coroutine is one with local *)
(* data.  push_context and pop_context are not in src/; they are modelled  *)
(* from raw_yield_now and the walks.  A memory fault runs the signal       *)
(* handler, which another thread may be installing.                        *)
(***************************************************************************)
EXTENDS Naturals, Sequences

CONSTANTS
  Generators, Coroutines,    \* Coroutines: the generators with local data
  Root, Nil,
  Signals                    \* SIGSEGV, SIGBUS: in the order they are registered

ASSUME RuntimeAssumption == Coroutines \subseteq Generators /\ Root \notin Generators /\ Nil \notin Generators \cup {Root}

VARIABLES
  parent, child,   \* Context.parent, Context.child
  para,            \* the coroutines with a parameter in para
  nest,            \* the running generators, outermost first
  finished,        \* the generators that are done
  err,             \* the generators whose err is StackErr
  inst,            \* init of overflow.rs: how many signals it has registered
  saved,           \* SIG_ACTION: whose previous action it holds
  disp,            \* the action of every signal: "ours" or the previous one of a signal
  fault            \* the fault being handled: its signal, the guard it hit, the handler's step

genVars == <<parent, child, para, nest, finished>>
sigVars == <<inst, saved, disp>>
vars == <<genVars, err, sigVars, fault>>

NoFault == [pc |-> "none", sig |-> Nil, hit |-> Nil]
SignalSet == {Signals[k] : k \in DOMAIN Signals}

Init ==
  /\ parent = [c \in Generators \cup {Root} |-> IF c = Root THEN Root ELSE Nil]
  /\ child = [c \in Generators \cup {Root} |-> Nil]
  /\ para = {} /\ nest = <<>> /\ finished = {} /\ err = {}
  /\ inst = 0 /\ saved = Nil
  /\ disp = [s \in SignalSet |-> s]
  /\ fault = NoFault

Runs == fault = NoFault
top == parent[Root]

-----------------------------------------------------------------------------
\* A generator is resumed: push_context.
push_context(g) ==
  /\ Runs /\ parent[g] = Nil /\ g \notin finished
  /\ parent' = [parent EXCEPT ![g] = top, ![Root] = g]
  /\ child' = [child EXCEPT ![top] = g]
  /\ nest' = Append(nest, g)
  /\ UNCHANGED <<para, finished, err, sigVars, fault>>

\* pop_context on the top context.
Pop ==
  /\ nest # <<>>
  /\ parent' = [parent EXCEPT ![top] = Nil, ![Root] = parent[top]]
  /\ child' = [child EXCEPT ![parent[top]] = Nil]
  /\ nest' = SubSeq(nest, 1, Len(nest) - 1)
  /\ UNCHANGED <<para, err, sigVars, fault>>

is_generator == child[Root] # Nil

yield_now == Runs /\ Pop /\ UNCHANGED finished

\* done!(): panics with Error::Done, the generator ends.
done == Runs /\ is_generator /\ Pop /\ finished' = finished \cup {top}

\* The n-th context from the top.
Up[n \in Nat] == IF n = 0 THEN top ELSE parent[Up[n - 1]]

\* Mutant of coroutine_ctx: the walk goes on to the outermost coroutine.
coroutine_ctx_outermost ==
  IF \E k \in DOMAIN nest : nest[k] \in Coroutines
  THEN nest[CHOOSE k \in DOMAIN nest : nest[k] \in Coroutines /\ \A j \in 1 .. k - 1 : nest[j] \notin Coroutines]
  ELSE Nil

\* coroutine_ctx and get_local_data: up from the top, to the first with local data.
coroutine_ctx ==
  LET below(n) == \A m \in 0 .. n : Up[m] # Root
      hit(n) == below(n) /\ Up[n] \in Coroutines /\ \A m \in 0 .. n - 1 : Up[m] \notin Coroutines
      depth == 0 .. Len(nest)
  IN IF \E n \in depth : hit(n) THEN Up[CHOOSE n \in depth : hit(n)] ELSE Nil

\* coroutine_set_para on a suspended coroutine.
coroutine_set_para(g) ==
  /\ Runs /\ g \in Coroutines /\ parent[g] = Nil /\ g \notin finished
  /\ para' = para \cup {g}
  /\ UNCHANGED <<parent, child, nest, finished, err, sigVars, fault>>

\* get_coroutine_para: takes the parameter of the running coroutine.
get_coroutine_para ==
  /\ Runs /\ coroutine_ctx # Nil
  /\ para' = para \ {coroutine_ctx}
  /\ UNCHANGED <<parent, child, nest, finished, err, sigVars, fault>>

-----------------------------------------------------------------------------
\* init of overflow.rs, under the lock of SIG_ACTION: one sigaction call per signal;
\* every call leaves the previous action in the same SIG_ACTION.
init ==
  /\ inst < Len(Signals)
  /\ LET s == Signals[inst + 1]
     IN disp' = [disp EXCEPT ![s] = "ours"] /\ saved' = disp[s]
  /\ inst' = inst + 1
  /\ UNCHANGED <<genVars, err, fault>>

\* A fault: at the guard page of the running generator (hit), or elsewhere (Nil).
Fault(s, hit) ==
  /\ Runs
  /\ hit = Nil \/ (nest # <<>> /\ hit = top)
  /\ fault' = [pc |-> IF disp[s] = "ours" THEN "handler" ELSE "previous", sig |-> s, hit |-> hit]
  /\ UNCHANGED <<genVars, err, sigVars>>

\* signal_handler: guard::current asserts that a generator runs and takes the guard of
\* root.child.
signal_handler ==
  /\ fault.pc = "handler"
  /\ fault' = [fault EXCEPT !.pc =
       IF ~is_generator THEN "abort" ELSE IF fault.hit = child[Root] THEN "overflow" ELSE "restore"]
  /\ UNCHANGED <<genVars, err, sigVars>>

\* Mutant of restore: the handler returns and leaves the action in place.
restore_nothing ==
  /\ fault.pc = "restore" /\ inst = Len(Signals)
  /\ fault' = [fault EXCEPT !.pc = IF disp[fault.sig] = "ours" THEN "handler" ELSE "previous"]
  /\ UNCHANGED <<genVars, err, sigVars>>

\* Not ours: once init has released the lock, the saved action is set for the signal,
\* and the instruction faults again.
restore ==
  /\ fault.pc = "restore" /\ inst = Len(Signals)
  /\ disp' = [disp EXCEPT ![fault.sig] = saved]
  /\ fault' = [fault EXCEPT !.pc = IF saved = "ours" THEN "handler" ELSE "previous"]
  /\ UNCHANGED <<genVars, err, inst, saved>>

\* An overflow: the error is noted, the signal unblocked, std::thread::yield_now
\* called, and the process aborted.
overflow ==
  /\ fault.pc = "overflow"
  /\ err' = err \cup {top}
  /\ fault' = [fault EXCEPT !.pc = "abort"]
  /\ UNCHANGED <<genVars, sigVars>>

\* The previous action of a signal (the system's, or a handler of the program) deals
\* with the fault: here it ends.
previous ==
  /\ fault.pc = "previous"
  /\ fault' = NoFault
  /\ UNCHANGED <<genVars, err, sigVars>>

Handle == signal_handler \/ restore \/ overflow \/ previous

Next ==
  \/ yield_now \/ done \/ get_coroutine_para \/ init \/ Handle
  \/ \E g \in Generators : push_context(g) \/ coroutine_set_para(g)
  \/ \E s \in SignalSet, hit \in Generators \cup {Nil} : Fault(s, hit)

\* init runs to its end, the handler too.
Spec == Init /\ [][Next]_vars /\ WF_vars(init) /\ WF_vars(Handle)

-----------------------------------------------------------------------------
(* Properties.                                                             *)

\* g is the innermost coroutine that runs.
Innermost(g) ==
  \E k \in DOMAIN nest : nest[k] = g /\ \A j \in k + 1 .. Len(nest) : nest[j] \notin Coroutines

\* A parameter is taken by the coroutine it was set for, also when that coroutine runs
\* plain generators or other coroutines inside (yield_now.rs:44-53, runtime.rs:193-209).
ParaToOwner == [][\A g \in para : g \notin para' => Innermost(g)]_vars

\* A fault is dealt with in the end: the process aborts or the previous action has it;
\* the handler is not run forever on the same fault (overflow.rs:26-36).
FaultEnds == fault.pc \in {"handler", "restore"} ~> fault.pc \in {"abort", "previous", "overflow"}
=============================================================================
