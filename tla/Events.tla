------------------------------- MODULE Events -------------------------------
(***************************************************************************)
(* Doorbells and port-writes of one mport, delivered to the event queues   *)
(* of the files open on its character device.  The two share the files and *)
(* nothing else: a behaviour has doorbells, or port-writes with files that *)
(* come and go, or port-writes of more changes of links (the kinds).       *)
(***************************************************************************)
EXTENDS Doorbell, PortWrite

CONSTANT MaxChangeFiles    \* bound on the changes of links while files come and go
ASSUME EventsAssumption == MaxChangeFiles \in 0 .. MaxChange

VARIABLE kind   \* the traffic of the behaviour

vars == <<fileVars, dbVars, pwVars, kind>>

Init ==
    /\ EventInit /\ DbInit /\ PwInit
    /\ kind \in {"doorbell", "filter", "link"}

FileNext(f) == Open(f) \/ SetMask(f) \/ Read(f)

DbNext ==
    \/ \E i \in Info : Arrive(i)
    \/ HandlerStep
    \/ \E f \in File :
         \/ FileNext(f) /\ UNCHANGED dbVars
         \/ \E g \in DbRange : AddDbFilter(f, g)
         \/ ListDbFilter(f) \/ ReleaseDbRange(f) \/ CloseDb(f)
         \/ \E x \in filters : RemoveDbFilter(f, x)

PwNext ==
    \/ \E p \in 0 .. NSwitch :
         /\ kind = "filter" => nchange < MaxChangeFiles /\ p \in PwFilter
         /\ LinkChange(p)
    \/ PwStep
    \/ kind = "filter" /\ \E f \in File :
         \/ FileNext(f) /\ UNCHANGED pwVars
         \/ \E p \in PwFilter : AddPwFilter(f, p) \/ RemovePwFilter(f, p)
         \/ AddPwHandler(f) \/ EnablePw(f) \/ DelPwHandler(f) \/ DisablePw(f) \/ ClosePw(f)

(* After a call through a list entry that is gone nothing more is said.    *)
WithDb(A) == ~wild /\ kind = "doorbell" /\ A /\ UNCHANGED <<pwVars, kind>>
WithPw(A) == kind # "doorbell" /\ A /\ UNCHANGED <<dbVars, kind>>

Next == WithDb(DbNext) \/ WithPw(PwNext)

Spec == Init /\ [][Next]_vars

(* Interrupts are delivered, and the work queue runs what is scheduled.    *)
FairSpec ==
    /\ Spec
    /\ WF_vars(WithDb(HandlerStep))
    /\ WF_vars(WithPw(PwCopy \/ PwClear))
    /\ WF_vars(WithPw(PwTake \/ PwCall \/ PwCheck \/ PwStatus \/ PwUpdate))

(***************************************************************************)
(* Whatever arrives is handled: again and again the queue of doorbells and *)
(* the FIFO of port-writes are empty, and so is the capture register while *)
(* interrupts are enabled.  No doorbell stays behind because the interrupt *)
(* that announced it was cleared too early or too late, no port-write      *)
(* because scheduling the work while it is scheduled does nothing.         *)
(***************************************************************************)
EventsServed ==
    []<>(wild \/ (nserved = nsent /\ pwq = <<>> /\ (Inte => capt = 0)))
=============================================================================
