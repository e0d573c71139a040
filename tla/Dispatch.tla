------------------------------ MODULE Dispatch ------------------------------
(***************************************************************************)
(* server/protocol.py: dispatch_tool_call, the pipeline every tool call    *)
(* goes through, with the checks of security/ it makes, the lookup of      *)
(* tools/registry.py and the entry it leaves with logging/audit.py; the    *)
(* rate limiter it asks is the module RateLimiter.                         *)
(*                                                                         *)
(* The event loop serves one call after the other.  What can go wrong is   *)
(* the order of a call's effects (the limiter counts it, the handler runs, *)
(* the entry is written) and the exception that ends it after some of them.*)
(***************************************************************************)
EXTENDS Naturals, Sequences, FiniteSets

CONSTANTS Principal,       \* whom authenticate may return
          MaxRequests,     \* MAX_REQUESTS_PER_MINUTE
          Window,          \* the limiter's window, in ticks
          MaxClock,        \* bound: how far the clock runs
          RequireConfirm,  \* DANGEROUS_TOOLS_REQUIRE_CONFIRM
          AuditMayFail     \* can AuditLogger.record raise (disk full, ...)?

ASSUME LimiterAssumption == /\ MaxRequests \in Nat \ {0} /\ Window \in Nat \ {0}
                            /\ MaxClock \in Nat
ASSUME DispatchAssumption == RequireConfirm \in BOOLEAN /\ AuditMayFail \in BOOLEAN

VARIABLES
  clock, events, admitted, decision,  \* the rate limiter's
  call,    \* what the current call asks for, and what the checks will find
  stage,   \* where dispatch_tool_call stands with it
  error,   \* the error_type of the exception in flight, or "none"
  effect,  \* the handler changed something
  entry,   \* what the audit log says of the call
  reply    \* what dispatch_tool_call gave its caller

limiter == <<clock, events, admitted, decision>>
vars == <<clock, events, admitted, decision, call, stage, error, effect, entry, reply>>

Limiter == INSTANCE RateLimiter WITH reply <- decision

\* authentic: authenticate returns principal; allowed: ALLOWED_TOOLS and
\* DENIED_TOOLS let the tool through; permitted: so does the session it names;
\* dangerous, confirmed: the tool is dangerous, "confirm" is true;
\* known: the registry has the tool.
Calls == [principal : Principal, authentic : BOOLEAN, allowed : BOOLEAN,
          permitted : BOOLEAN, dangerous : BOOLEAN, confirmed : BOOLEAN,
          known : BOOLEAN]

Refusals == {"authentication_error", "rate_limit_error", "authorization_error",
             "approval_required_error"}
Errors == Refusals \cup {"unknown_tool_error", "tool_error", "internal_error"}

TypeOK ==
  /\ Limiter!TypeOK
  /\ call \in Calls
  /\ stage \in {"new", "lookup", "handler", "succeeded", "raised", "ended"}
  /\ error \in Errors \cup {"none"}
  /\ effect \in BOOLEAN
  /\ entry \in {"none", "success", "failure"}
  /\ reply \in {"none", "result", "error", "exception"}

Init ==
  /\ Limiter!Init
  /\ call \in Calls
  /\ stage = "new"
  /\ error = "none"
  /\ effect = FALSE
  /\ entry = "none"
  /\ reply = "none"

Goes(from, to) == stage = from /\ stage' = to

Raise(from, e) == Goes(from, "raised") /\ error' = e

\* Time passes, within a call and between two.
Tick == Limiter!Tick /\ UNCHANGED <<call, stage, error, effect, entry, reply>>

NextCall ==
  /\ Goes("ended", "new")
  /\ call' \in Calls
  /\ error' = "none" /\ effect' = FALSE /\ entry' = "none" /\ reply' = "none"
  /\ UNCHANGED limiter

-----------------------------------------------------------------------------
(* The checks, in the order of the code.  The first one that fails ends    *)
(* the call; every call that reaches the permission checks was counted.    *)

Unauthenticated ==
  /\ ~call.authentic
  /\ Raise("new", "authentication_error")
  /\ UNCHANGED <<limiter, call, effect, entry, reply>>

RateLimited ==
  /\ call.authentic
  /\ Limiter!Refuse(call.principal)
  /\ Raise("new", "rate_limit_error")
  /\ UNCHANGED <<call, effect, entry, reply>>

\* Mutant: the confirmation is asked only of tools outside the allow list.
NeedsConfirm_Inverted == RequireConfirm /\ call.dangerous /\ ~call.allowed

NeedsConfirm == RequireConfirm /\ call.dangerous /\ ~call.confirmed

Checked ==
  /\ call.authentic
  /\ Limiter!Admit(call.principal)
  /\ IF ~call.allowed THEN Raise("new", "authorization_error")
     ELSE IF NeedsConfirm THEN Raise("new", "approval_required_error")
     ELSE IF ~call.permitted THEN Raise("new", "authorization_error")
     ELSE Goes("new", "lookup") /\ UNCHANGED error
  /\ UNCHANGED <<call, effect, entry, reply>>

-----------------------------------------------------------------------------
(* The registry and the handler.                                           *)

Lookup ==
  /\ IF call.known THEN Goes("lookup", "handler") /\ UNCHANGED error
                   ELSE Raise("lookup", "unknown_tool_error")
  /\ UNCHANGED <<limiter, call, effect, entry, reply>>

HandlerReturns ==
  /\ Goes("handler", "succeeded")
  /\ effect' = TRUE
  /\ UNCHANGED <<limiter, call, error, entry, reply>>

\* A handler raises before or after it changed something.  A KeyError of its
\* own (a missing argument) is reported as an unknown tool.
HandlerRaises ==
  /\ \E e \in {"tool_error", "internal_error", "unknown_tool_error"} : Raise("handler", e)
  /\ effect' \in BOOLEAN
  /\ UNCHANGED <<limiter, call, entry, reply>>

-----------------------------------------------------------------------------
(* The audit entry and the reply.                                          *)

Record(outcome) == entry' = outcome

Answer ==
  /\ Goes("succeeded", "ended")
  /\ Record("success") /\ reply' = "result"
  /\ UNCHANGED <<limiter, call, error, effect>>

\* The handler did its work, the entry of its success cannot be written.
AnswerUnrecorded ==
  /\ AuditMayFail
  /\ Raise("succeeded", "internal_error")
  /\ UNCHANGED <<limiter, call, effect, entry, reply>>

\* except KeyError: no entry.
AnswerUnknownTool ==
  /\ error = "unknown_tool_error"
  /\ Goes("raised", "ended")
  /\ reply' = "error"
  /\ UNCHANGED <<limiter, call, error, effect, entry>>

\* Mutant: an error is recorded as a success.
AnswerError_Success ==
  /\ error # "unknown_tool_error"
  /\ Goes("raised", "ended")
  /\ Record("success") /\ reply' = "error"
  /\ UNCHANGED <<limiter, call, error, effect>>

AnswerError ==
  /\ error # "unknown_tool_error"
  /\ Goes("raised", "ended")
  /\ Record("failure") /\ reply' = "error"
  /\ UNCHANGED <<limiter, call, error, effect>>

\* record raises inside an except block: the exception leaves the function,
\* although its docstring says that it never raises.
AnswerRaises ==
  /\ AuditMayFail
  /\ error # "unknown_tool_error"
  /\ Goes("raised", "ended")
  /\ reply' = "exception"
  /\ UNCHANGED <<limiter, call, error, effect, entry>>

-----------------------------------------------------------------------------
Next == \/ Tick \/ NextCall
        \/ Unauthenticated \/ RateLimited \/ Checked
        \/ Lookup \/ HandlerReturns \/ HandlerRaises
        \/ Answer \/ AnswerUnrecorded
        \/ AnswerUnknownTool \/ AnswerError \/ AnswerRaises

Spec == Init /\ [][Next]_vars

-----------------------------------------------------------------------------
(* What must hold.                                                         *)

(* The audit log never contradicts the reply, whichever exception ends the *)
(* call and whether or not an entry can be written: a success entry means  *)
(* that the caller has the result, a failure entry that it has an error.   *)
(* A call that has ended is in the log unless a KeyError ended it, the     *)
(* registry's or a handler's (protocol.py:54), or the log could not be     *)
(* written, which the caller then sees.                                    *)
AuditAgreesWithReply ==
  /\ entry = "success" <=> reply = "result"
  /\ entry = "failure" => reply = "error"
  /\ stage = "ended" /\ entry = "none"
       => error = "unknown_tool_error" \/ reply = "exception"

(* A refused call changed nothing: no handler runs before every check has  *)
(* passed, so a dangerous tool runs only when confirmed (if confirmation   *)
(* is required) and never for a caller, a tool or a session the call has   *)
(* no right to, nor beyond the rate limit.                                 *)
RefusedHasNoEffect ==
  effect => /\ error \notin Refusals
            /\ call.authentic /\ call.allowed /\ call.permitted /\ call.known
            /\ call.dangerous /\ RequireConfirm => call.confirmed
            /\ decision[call.principal] = "admitted"

(* The limiter's deque decides as the whole history would: a call is       *)
(* refused only when its own principal used the window up; expired calls,  *)
(* refused calls and unauthenticated ones do not count.                    *)
History == INSTANCE SlidingWindow WITH Max <- MaxRequests, reply <- decision

DecidesByHistory == History!Safety
=============================================================================
