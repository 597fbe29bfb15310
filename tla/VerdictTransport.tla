-------------------------- MODULE VerdictTransport ---------------------------
(***************************************************************************)
(* How the verdict of a move gets to whoever asked for it.  A saga raises  *)
(* one error that carries the verdict, caused by the cluster's error that  *)
(* made it unwind; the engine wraps it in errors of its own, or, with      *)
(* Restate, flattens it into the text of an HTTP answer; and the caller    *)
(* looks through what it catches, from the outside in, for the verdict.    *)
(*                                                                         *)
(* The three sagas build the same verdict, so the one of BaselineSaga      *)
(* stands for all of them.  The wording of messages is left out, except    *)
(* for the part of one that is searched for and read back.                 *)
(***************************************************************************)
EXTENDS BaselineSaga

Engine == {"None", "Temporal", "Restate"}

SagaOutcome == {"REJECTED", "COMPENSATED", "COMPENSATION_INCOMPLETE"}

SAGA_ERROR_TYPES(outcome) ==
    CASE outcome = "REJECTED"                -> "SagaRejectedError"
      [] outcome = "COMPENSATED"             -> "SagaCompensatedError"
      [] outcome = "COMPENSATION_INCOMPLETE" -> "SagaCompensationIncompleteError"

\* The first step that has not been done.
FailedStep ==
    IF verdict = "REJECTED" THEN Step("validate", "none") ELSE CurrentStep

SagaFailure ==
    [outcome |-> verdict, failed_step |-> FailedStep,
     compensated |-> compensated, noops |-> noops, errors |-> errors]

-----------------------------------------------------------------------------
(* Errors: a sequence of them, each the cause of the one before it.  What  *)
(* an error may carry is a sequence of at most one element.                *)

NoBody == [envelope |-> <<>>, payload |-> <<>>]

Error(class) == [class |-> class, type |-> class, details |-> <<>>, body |-> NoBody]

\* The error of the cluster that made a saga unwind, as each engine shows it to
\* the saga.
ClusterErrors(engine) ==
    CASE engine = "None"     -> << Error("ClusterError") >>
      [] engine = "Temporal" -> << Error("ActivityError"), Error("ApplicationError") >>
      [] engine = "Restate"  -> << Error("TerminalError") >>

Causes(engine) == IF verdict = "REJECTED" THEN <<>> ELSE ClusterErrors(engine)

\* Fault: a TerminalError with a traceback has no room for the verdict.
TracebackOrPayload(failure, causes) ==
    [Error("TerminalError") EXCEPT
        !.body = [envelope |-> <<SAGA_ERROR_TYPES(failure.outcome)>>,
                  payload  |-> IF causes = <<>> THEN <<failure>> ELSE <<>>]]

\* The message carries the type, the metadata the traceback and the verdict.
saga_terminal_error(failure, causes) ==
    [Error("TerminalError") EXCEPT
        !.body = [envelope |-> <<SAGA_ERROR_TYPES(failure.outcome)>>,
                  payload  |-> <<failure>>]]

\* What the saga raises, with its causes behind it.
SagaRaises(engine, failure, causes) ==
    CASE engine = "None" ->
            << [Error("SagaError") EXCEPT
                  !.type = SAGA_ERROR_TYPES(failure.outcome), !.details = <<failure>>] >>
            \o causes
      [] engine = "Temporal" ->
            << [Error("ApplicationError") EXCEPT
                  !.type = SAGA_ERROR_TYPES(failure.outcome), !.details = <<failure>>] >>
            \o causes
      [] engine = "Restate" ->
            << saga_terminal_error(failure, causes) >> \o causes

\* What the caller catches.  Only the text of its answer leaves Restate.
Delivered(engine, raised) ==
    CASE engine = "None"     -> raised
      [] engine = "Temporal" -> << Error("WorkflowFailureError") >> \o raised
      [] engine = "Restate"  -> << [Error("HttpError") EXCEPT !.body = Head(raised).body] >>

-----------------------------------------------------------------------------
(* Finding the verdict: <<failure, type>>, or <<>> where there is none.    *)

decode_saga_failure(body) ==
    IF body.envelope = <<>> \/ body.payload = <<>>
    THEN <<>>
    ELSE << Head(body.payload), Head(body.envelope) >>

VerdictOf(error) ==
    CASE error.class \in {"SagaError", "ApplicationError"} /\ error.details # <<>> ->
            << Head(error.details), error.type >>
      [] error.class = "HttpError" -> decode_saga_failure(error.body)
      [] OTHER -> <<>>

\* The first error from the outside that carries a verdict decides.
extract_saga_failure(caught) ==
    LET at == SelectInSeq(caught, LAMBDA error : VerdictOf(error) # <<>>)
    IN  IF at = 0 THEN <<>> ELSE VerdictOf(caught[at])

\* Whoever asked for a move that did not complete learns the verdict, with its
\* whole report, as the saga reached it and under the right type, through every
\* engine ("Every saga that does not complete exposes the same verdict"); and
\* an error of the cluster on its own is never taken for a verdict.
VerdictReachesCaller ==
    /\ verdict \in SagaOutcome =>
        \A engine \in Engine :
            extract_saga_failure(
                Delivered(engine, SagaRaises(engine, SagaFailure, Causes(engine))))
              = << SagaFailure, SAGA_ERROR_TYPES(verdict) >>
    /\ verdict = "RAISED" =>
        \A engine \in Engine :
            extract_saga_failure(Delivered(engine, ClusterErrors(engine))) = <<>>
=============================================================================
