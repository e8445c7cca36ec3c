--------------------------- MODULE ClientRequests ---------------------------
(***************************************************************************)
(* The event handlers of a page and the requests they wait for             *)
(* (service/www/3/exodus/scripts/client.js).                               *)
(*                                                                         *)
(* Scripts of a page run one at a time.  An event handler is a generator:  *)
(* at a request to the server or a question to the user it yields, and is  *)
(* resumed with the answer.  There is one variable for the generator to    *)
(* resume (geventhandler), and a counter that keeps other events away      *)
(* while it is not done (gblockevents).                                    *)
(*                                                                         *)
(* A RELOCK is sent by a handler of its own that does not wait: but its    *)
(* reply resumes, like every reply, whatever handler there is.             *)
(*                                                                         *)
(* The module has the state and the operators; what the handlers do is in  *)
(* the module that extends it.                                             *)
(***************************************************************************)
EXTENDS Integers

CONSTANTS
  Key,             \* record keys
  NoKey,           \* the empty key
  MaxFaults        \* bound: requests that fail on the way, and replies that
                   \* come when another handler waits

ASSUME ClientAssumption == NoKey \notin Key /\ MaxFaults \in Nat

VARIABLES
  handler,         \* geventhandler: where it has yielded, and its locals
  request,         \* the request of db.XMLHTTP
  orphan,          \* it is on its way though its handler has given it up
  relock,          \* the RELOCK on its way, with an XMLHTTP of its own
  faults           \* failures so far (for the bound)

clientVars == <<handler, request, orphan, relock, faults>>

\* Where a handler yields.  "reply" is in exodusdblink_send_byhttp_using_
\* xmlhttp, the others in exodusconfirm2, named for the question they ask.
Question ==
  {"note", "deleted", "written", "save_or_discard", "view_only", "sure_to_delete",
   "retry_unlock", "resume_login"}
YieldPoint == Question \cup {"done", "reply"}

\* What a handler was called to do: the mode of saveandorcleardoc(), or one
\* of its own.
Mode ==
  {"SAVE", "PRINT", "CLOSE", "CLEAR", "NEW", "RELEASE", "OPEN", "DELETE",
   "ABANDON", "LOAD"}

Handler ==
  [at : YieldPoint, mode : Mode, next : Key \cup {NoKey}, clear : BOOLEAN]

Done == [at |-> "done", mode |-> "CLOSE", next |-> NoKey, clear |-> FALSE]

Request ==
  [type : {"none", "READU", "WRITE", "WRITEU", "DELETE", "UNLOCK"},
   key : Key \cup {NoKey}, session : Nat, data : Key \cup {NoKey},
   status : {"sent", "served"}, result : {"ok", "locked", "failed", "login"},
   version : Nat, grant : Nat]

NoRequest ==
  [type |-> "none", key |-> NoKey, session |-> 0, data |-> NoKey,
   status |-> "served", result |-> "failed", version |-> 0, grant |-> 0]

Relock ==
  [status : {"none", "sent", "served"}, key : Key \cup {NoKey}, session : Nat]

NoRelock == [status |-> "none", key |-> NoKey, session |-> 0]

ClientTypeOK ==
  /\ handler \in Handler /\ request \in Request /\ relock \in Relock
  /\ orphan \in BOOLEAN /\ faults \in 0..MaxFaults

ClientInit ==
  /\ handler = Done /\ request = NoRequest /\ relock = NoRelock
  /\ orphan = FALSE /\ faults = 0

-----------------------------------------------------------------------------
(* Handlers.                                                               *)

\* gblockevents: exodus_next() raises it when a handler starts and lowers it
\* when one is done, so that it is up while a handler has yielded.
Blocked == handler.at # "done"

\* starteventhandler(), exodustimeout_sync(), exodusinterval_sync(): an event
\* starts a handler only when none is under way.  Events are dropped,
\* timeouts deferred, intervals skipped until their next turn.
EventStarts == ~Blocked

\* A reply that was read is of no more use.
RequestRead == request' = IF request.status = "sent" THEN request ELSE NoRequest

\* The handler returns.
Finish == handler' = Done /\ RequestRead

\* exodusnote(), and the handler returns when it was read.
Note == handler' = [Done EXCEPT !.at = "note"] /\ RequestRead

\* exodusconfirm(), exodusyesno(): the question is on the page.
Ask(question, h) == handler' = [h EXCEPT !.at = question] /\ RequestRead

\* exodusdblink_send_byhttp_using_xmlhttp(), up to the yield.  open() gives up
\* whatever that XMLHTTP was doing.
Send(type, key, session, data, h) ==
  /\ request' = [NoRequest EXCEPT !.type = type, !.key = key, !.data = data,
                   !.session = session, !.status = "sent"]
  /\ handler' = [h EXCEPT !.at = "reply"]

\* The same, for "Do you want to retry?", and after a new login.
SendAgain ==
  /\ request' = [request EXCEPT !.status = "sent", !.result = "failed",
                   !.version = 0, !.grant = 0]
  /\ handler' = [handler EXCEPT !.at = "reply"]

\* A request that is sent takes the place of one that was given up.
OrphanKept == orphan' = (orphan /\ handler'.at # "reply")

\* "Please login": the request is sent again after it.
AskLogin == handler' = [handler EXCEPT !.at = "resume_login"] /\ UNCHANGED request

\* The reply is here, and is the one that the handler waits for.
ReplyIn == handler.at = "reply" /\ request.status = "served"

Fault == faults < MaxFaults /\ faults' = faults + 1

\* onerror, or a reply that is not XML.
ReplyLost == handler.at = "reply" /\ Fault

\* A reply nobody waits for: of a RELOCK, or of a request whose handler was
\* resumed before and gave up.  It resumes the handler there is.
StrayReply ==
  /\ \/ ~Blocked /\ UNCHANGED faults
     \/ Blocked /\ Fault
  /\ \/ /\ relock.status = "served" /\ relock' = NoRelock
        /\ OrphanKept
     \/ /\ orphan /\ request.status = "served" /\ orphan' = FALSE
        /\ UNCHANGED relock

\* RELOCK: the send is followed by an error on purpose, that is caught and
\* taken for success: the handler is done at once.
SendRelock(key, session) ==
  /\ EventStarts
  /\ relock.status = "none"
  /\ relock' = [status |-> "sent", key |-> key, session |-> session]
  /\ UNCHANGED <<handler, request, orphan, faults>>
=============================================================================
