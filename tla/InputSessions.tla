--------------------------- MODULE InputSessions ---------------------------
(***************************************************************************)
(* The operators' input connections (the /ws handler).  Each has a receive *)
(* loop and a flusher, two tasks that share the pending motion; both hand  *)
(* their work to the one worker of _hid_pool and wait for it.  An          *)
(* operation of the controller is one step of the worker here; HidInput    *)
(* has its inner steps.                                                    *)
(***************************************************************************)
EXTENDS Naturals, Sequences, FiniteSets, SequencesExt

CONSTANTS
    Operators,      \* connections that may be open at once
    Relative,       \* those whose page only sends relative motion (a locked pointer)
    Keys,           \* keys and buttons
    MaxMotion       \* bound: relative motion, in units, one connection receives

ASSUME SessionAssumption == MaxMotion \in Nat \ {0} /\ Relative \subseteq Operators

VARIABLES
    task,           \* where the receive loop and the flusher of each connection are
    pend,           \* the pending motion of each connection
    pool,           \* jobs handed to the worker and not begun
    running,        \* the job the worker is at
    holder,         \* per key and button the controller has down: the task that pressed it
    received, applied   \* relative motion each open connection was sent, and has moved

sessionVars == <<task, pend, pool, running, holder, received, applied>>
counts == <<received, applied>>

Roles == {"loop", "flusher"}
Tasks == Operators \X Roles
Who(t) == t[1]
Loop(o) == <<o, "loop">>
Flusher(o) == <<o, "flusher">>

\* What a task waits for ("abs", "rel", "op": a job of its own), the relative motion it has
\* taken and not yet handed over, and the operation that follows the flush.
Off == [at |-> "off", rel |-> 0, op |-> "none", key |-> "none"]
Ready == [Off EXCEPT !.at = "idle"]
Motionless == [abs |-> FALSE, rel |-> 0]

Job(t, op, arg) == [task |-> t, op |-> op, arg |-> arg]
NoTask == <<"nobody", "none">>
NothingDown == [k \in Keys |-> NoTask]
NoWork == Job(NoTask, "none", "none")

JobsOf(t) == {i \in DOMAIN pool : pool[i].task = t}

\* The future of its job is resolved: the worker has neither begun it nor is at it.
JobDone(t) == running.task # t /\ JobsOf(t) = {}

Connected(o) == task[Loop(o)].at # "off"

SessionInit ==
    /\ task = [t \in Tasks |-> Off]
    /\ pend = [o \in Operators |-> Motionless]
    /\ pool = <<>> /\ running = NoWork
    /\ holder = NothingDown
    /\ received = [o \in Operators |-> 0] /\ applied = [o \in Operators |-> 0]

-----------------------------------------------------------------------------
(* flush_mouse, as the receive loop and the flusher call it.               *)

\* What is submitted next by a task with motion to write and an operation to follow, and
\* where the task then waits.
Submits(t, abs, rel, op, key) ==
    IF abs THEN /\ pool' = Append(pool, Job(t, "abs", 0))
                /\ task' = [task EXCEPT ![t] = [at |-> "abs", rel |-> rel, op |-> op, key |-> key]]
    ELSE IF rel > 0
    THEN /\ pool' = Append(pool, Job(t, "rel", rel))
         /\ task' = [task EXCEPT ![t] = [at |-> "rel", rel |-> 0, op |-> op, key |-> key]]
    ELSE IF op # "none"
    THEN /\ pool' = Append(pool, Job(t, op, key))
         /\ task' = [task EXCEPT ![t] = [at |-> "op", rel |-> 0, op |-> op, key |-> key]]
    ELSE /\ task' = [task EXCEPT ![t] = Ready]
         /\ UNCHANGED pool

\* Slip: the pending motion is cleared only when it has been written.
FlushKeeps(t, op, key) ==
    /\ Submits(t, pend[Who(t)].abs, pend[Who(t)].rel, op, key)
    /\ UNCHANGED pend

\* Slip: an operation does not flush the pending motion first.
FlushSkipped(t, op, key) ==
    /\ IF op = "none" THEN Submits(t, pend[Who(t)].abs, pend[Who(t)].rel, op, key)
                      ELSE Submits(t, FALSE, 0, op, key)
    /\ pend' = IF op = "none" THEN [pend EXCEPT ![Who(t)] = Motionless] ELSE pend

\* The pending motion is taken at once and handed over in one or two jobs.
Flush(t, op, key) ==
    /\ Submits(t, pend[Who(t)].abs, pend[Who(t)].rel, op, key)
    /\ pend' = [pend EXCEPT ![Who(t)] = Motionless]

-----------------------------------------------------------------------------
(* The connection.                                                         *)

OpenSession(o) ==
    /\ ~Connected(o)
    /\ task' = [task EXCEPT ![Loop(o)] = Ready, ![Flusher(o)] = Ready]
    /\ UNCHANGED <<pend, pool, running, holder, counts>>

Receiving(o) == task[Loop(o)] = Ready

\* "mm" and "mr" only record the motion.
ReceiveAbs(o) ==
    /\ Receiving(o) /\ o \notin Relative
    /\ pend' = [pend EXCEPT ![o].abs = TRUE]
    /\ UNCHANGED <<task, pool, running, holder, counts>>

ReceiveRel(o) ==
    /\ Receiving(o) /\ received[o] < MaxMotion
    /\ pend' = [pend EXCEPT ![o].rel = @ + 1]
    /\ received' = [received EXCEPT ![o] = @ + 1]
    /\ UNCHANGED <<task, pool, running, holder, applied>>

\* "kd", "ku", "mb": the pending motion first, then the key or button.
ReceiveOp(o, op, key) ==
    /\ Receiving(o)
    /\ Flush(Loop(o), op, key)
    /\ UNCHANGED <<running, holder, counts>>

\* "reset" drops the pending motion and releases everything.
ReceiveReset(o) ==
    /\ Receiving(o)
    /\ received' = [received EXCEPT ![o] = @ - pend[o].rel]
    /\ pend' = [pend EXCEPT ![o] = Motionless]
    /\ Submits(Loop(o), FALSE, 0, "release", "none")
    /\ UNCHANGED <<running, holder, applied>>

\* Every 8 ms.
FlusherWakes(o) ==
    /\ task[Flusher(o)] = Ready /\ Connected(o) /\ pend[o] # Motionless
    /\ Flush(Flusher(o), "none", "none")
    /\ UNCHANGED <<running, holder, counts>>

\* A task whose job is done goes on with what it still has to hand over; a receive loop
\* that has had its last release is over.
Resumes(t) ==
    /\ task[t].at \in {"abs", "rel", "op"} /\ JobDone(t)
    /\ IF task[t].at = "op" THEN Submits(t, FALSE, 0, "none", "none")
                            ELSE Submits(t, FALSE, task[t].rel, task[t].op, task[t].key)
    /\ UNCHANGED <<pend, running, holder, counts>>

\* The flusher is cancelled: the job it waits for, if it has not begun, is withdrawn from the
\* pool.
Withdrawn(o) ==
    IF JobsOf(Flusher(o)) = {} THEN pool
    ELSE RemoveAt(pool, CHOOSE i \in JobsOf(Flusher(o)) : TRUE)

\* What belongs to a connection goes with it.
Forget(o) ==
    /\ pend' = [pend EXCEPT ![o] = Motionless]
    /\ received' = [received EXCEPT ![o] = 0] /\ applied' = [applied EXCEPT ![o] = 0]

\* Slip: the CancelledError of a flusher caught in a flush ends the handler with it.
DisconnectAborts(o) ==
    /\ Receiving(o)
    /\ IF task[Flusher(o)] = Ready
       THEN /\ pool' = Append(pool, Job(Loop(o), "release", "none"))
            /\ task' = [task EXCEPT ![Flusher(o)] = Off,
                                    ![Loop(o)] = [Off EXCEPT !.at = "leaving"]]
            /\ UNCHANGED <<pend, counts>>
       ELSE /\ pool' = Withdrawn(o)
            /\ task' = [task EXCEPT ![Flusher(o)] = Off, ![Loop(o)] = Off]
            /\ Forget(o)
    /\ UNCHANGED <<running, holder>>

\* The page is gone, which the receive loop finds out when it next receives: the flusher is
\* cancelled and everything released.
Disconnect(o) ==
    /\ Receiving(o)
    /\ pool' = Append(Withdrawn(o), Job(Loop(o), "release", "none"))
    /\ task' = [task EXCEPT ![Flusher(o)] = Off,
                            ![Loop(o)] = [Off EXCEPT !.at = "leaving"]]
    /\ UNCHANGED <<pend, running, holder, counts>>

Leaves(o) ==
    /\ task[Loop(o)].at = "leaving" /\ JobDone(Loop(o))
    /\ task' = [task EXCEPT ![Loop(o)] = Off]
    /\ Forget(o)
    /\ UNCHANGED <<pool, running, holder>>

-----------------------------------------------------------------------------
(* The worker of _hid_pool.                                                *)

\* It begins the oldest job; what the operation does to the held state comes first.
WorkerBegins ==
    /\ running = NoWork /\ pool # <<>>
    /\ running' = Head(pool) /\ pool' = Tail(pool)
    /\ LET j == Head(pool) IN
       /\ holder' = CASE j.op = "down" -> [holder EXCEPT ![j.arg] = j.task]
                      [] j.op = "up" -> [holder EXCEPT ![j.arg] = NoTask]
                      [] j.op = "release" -> NothingDown
                      [] OTHER -> holder
       /\ applied' = IF j.op = "rel" THEN [applied EXCEPT ![Who(j.task)] = @ + j.arg]
                                     ELSE applied
    /\ UNCHANGED <<task, pend, received>>

WorkerEnds ==
    /\ running # NoWork
    /\ running' = NoWork
    /\ UNCHANGED <<task, pend, pool, holder, counts>>

-----------------------------------------------------------------------------

SessionStep(o) ==
    \/ OpenSession(o) \/ ReceiveAbs(o) \/ ReceiveRel(o) \/ ReceiveReset(o)
    \/ \E op \in {"down", "up"}, key \in Keys : ReceiveOp(o, op, key)
    \/ FlusherWakes(o) \/ Disconnect(o) \/ Leaves(o)

SessionNext ==
    \/ \E o \in Operators : SessionStep(o)
    \/ \E t \in Tasks : Resumes(t)
    \/ WorkerBegins \/ WorkerEnds

SessionSpec == SessionInit /\ [][SessionNext]_sessionVars

-----------------------------------------------------------------------------
(* Properties.                                                             *)

\* What is taken from the pending motion and not yet moved: in a task's job in the pool, or
\* in the hands of a task that waits for its absolute half to be written.
InHands(o) == task[Loop(o)].rel + task[Flusher(o)].rel
Handed(t) ==
    LET moves == {i \in JobsOf(t) : pool[i].op = "rel"}
    IN  IF moves = {} THEN 0 ELSE pool[CHOOSE i \in moves : TRUE].arg
InPool(o) == Handed(Loop(o)) + Handed(Flusher(o))

\* Relative motion adds up: whatever the two tasks take from each other's hands, every unit
\* a connection received is moved once, or still on its way ("summed relative delta"); a task
\* has one job in the pool at most.
MotionAddsUp ==
    /\ \A t \in Tasks : \A i, j \in JobsOf(t) : i = j
    /\ \A o \in Operators :
           Connected(o) /\ task[Loop(o)].at # "leaving" =>
               received[o] = applied[o] + pend[o].rel + InHands(o) + InPool(o)

\* When the worker begins a key or button of a connection, the motion the operator made
\* before it has been written ("flush pending moves first so a click lands in place"), also
\* the part the flusher had taken; a page that mixes both kinds of motion may find the
\* relative half of one flush behind its click.
ClickInPlace ==
    \A o \in Operators :
        running.task = Loop(o) /\ running.op \in {"down", "up"} =>
            /\ pend[o] = Motionless
            /\ \A i \in JobsOf(Flusher(o)) : pool[i].op # "abs"
            /\ o \in Relative => InHands(o) + InPool(o) = 0

\* Once a connection is over, nothing it pressed is held, whoever else goes on typing: its
\* last job releases everything and none of its jobs comes after.
NothingHeldForTheGone ==
    \A k \in Keys : holder[k] # NoTask => Connected(Who(holder[k]))

=============================================================================
