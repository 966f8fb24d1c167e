---------------------------- MODULE AdminSession ----------------------------
(***************************************************************************)
(* The session in which this device administers a repeater or a room.      *)
(*                                                                         *)
(*   mesh/meshcore_admin_dispatch.c  the session and the replay cache      *)
(*   mesh/meshcore_admin_runtime.c   the one session, under its lock, and  *)
(*                                   the replay records in NVS             *)
(*   mesh/meshcore_service.c         the owner task's handlers, the        *)
(*                                   hand-over of responses, the callers   *)
(*   mesh/meshcore_command_guard.h   the slots of handed-over responses    *)
(*                                                                         *)
(* A step is what runs between two takings of the session's lock that      *)
(* another task could come between.  The clock is read once per dispatch,  *)
(* so that deadlines pass (Due) between two.  Keys, packets, permissions   *)
(* and the command queue (CommandSlots) are abstracted; timestamps sent as *)
(* tags never repeat (ProtocolTime), so a tag is the number of an exchange.*)
(* The kinds of an ended session, which only a display tells apart, are    *)
(* one; UINT32_MAX generations are not reached.                            *)
(***************************************************************************)
EXTENDS Naturals, Sequences

CONSTANTS
  Peers,           \* repeaters and rooms that may be administered
  NoPeer,
  Twins,           \* peers whose keys agree in the seven bytes of an NVS key
  Clients,         \* tasks that call d1l_meshcore_service_admin_*
  ResponseSlots,   \* s_admin_response_slots
  CacheSize,       \* D1L_MESHCORE_ADMIN_REPLAY_PEER_CAPACITY
  MaxStamp,        \* bound: the clock of a peer
  MaxCalls,        \* bound: calls
  MaxReboots       \* bound: restarts

ASSUME AdminAssumption ==
  /\ NoPeer \notin Peers /\ Twins \subseteq Peers
  /\ CacheSize \in Nat \ {0} /\ MaxStamp \in Nat
  /\ MaxCalls \in Nat /\ MaxReboots \in Nat

VARIABLES
  session,     \* s_session
  exchanges,   \* the timestamp or tag that was sent last
  remembered,  \* s_replay_cache: the peers in the order of their slots' reuse
  durable,     \* the replay records in NVS, by NVS key
  inbox,       \* s_admin_response_slots
  clients,     \* where each client's call is
  step,        \* where the owner task is in a handler
  accepted,    \* history: the latest login response accepted of each peer
  adminSpent        \* calls and reboots so far
adminVars == <<session, exchanges, remembered, durable, inbox, clients, step,
               accepted, adminSpent>>

ServerStamps == 1..MaxStamp

\* The peers that share a replay record, for the key of a record in NVS.
Key(p) == IF p \in Twins THEN Twins ELSE {p}
NoRecord == [peer |-> NoPeer, stamp |-> 0]

Calls == [kind : {"login"}, peer : Peers]
           \cup [kind : {"query", "text", "post", "logout"}, peer : {NoPeer}]
NoRequest == [at |-> "idle", kind |-> "none", peer |-> NoPeer]

\* What a response says: a login's server timestamp, a tag, or neither.
Body(kind, number) == [kind |-> kind, number |-> number]
Bodies == {Body("login", s) : s \in ServerStamps}
            \cup {Body("tagged", n) : n \in 1..exchanges} \cup {Body("other", 0)}
Handed(g, n, p, b) == [generation |-> g, exchange |-> n, peer |-> p, body |-> b]
Empty == Handed(0, 0, NoPeer, Body("other", 0))

Stage(where, c, g, n, r) ==
  [at |-> where, client |-> c, generation |-> g, exchange |-> n, reply |-> r]

Pending == session.state \in {"login", "query"}
Active == session.state \in {"authenticated", "query", "text"}
InTime == "request" \notin session.due
Idle == step.at = "idle"

AdminInit ==
  /\ session = [state |-> "ended", generation |-> 1, peer |-> NoPeer, stamp |-> 0,
                exchange |-> 0, due |-> {}]
  /\ exchanges = 0 /\ remembered = <<>>
  /\ durable = [k \in {Key(p) : p \in Peers} |-> NoRecord]
  /\ inbox = [s \in ResponseSlots |-> Empty]
  /\ clients = [c \in Clients |-> NoRequest]
  /\ step \in {Stage("idle", c, 0, 0, Empty) : c \in Clients}
  /\ accepted = [p \in Peers |-> 0]
  /\ adminSpent = [calls |-> 0, reboots |-> 0]

-----------------------------------------------------------------------------
(* Transitions of the session.  Each gives it a new generation.            *)

\* d1l_meshcore_admin_fail and _reset: everything but the generation goes.
Wiped == [state |-> "ended", generation |-> session.generation + 1,
          peer |-> NoPeer, stamp |-> 0, exchange |-> 0, due |-> {}]
Fail == session' = Wiped

\* d1l_meshcore_admin_runtime_report_failure: whatever the session is by now,
\* unless this failure is the one it ended with.
ReportFailure == Fail \/ (session.state = "ended" /\ UNCHANGED session)

\* d1l_meshcore_admin_begin_login, _begin_status_request, _begin_query_request,
\* _begin_mutation and _begin_cli_command.
LoginBegun(p) ==
  [state |-> "login", generation |-> session.generation + 1, peer |-> p, stamp |-> 0,
   exchange |-> exchanges + 1, due |-> {}]
RequestBegun(kind) ==
  [session EXCEPT !.state = kind, !.generation = @ + 1, !.exchange = exchanges + 1]

\* An accepted response or reply: the session rests, its idle deadline anew.
Rested(stamp) ==
  [session EXCEPT !.state = "authenticated", !.generation = @ + 1, !.stamp = stamp,
                  !.exchange = 0, !.due = {}]

-----------------------------------------------------------------------------
(* The callers.                                                            *)

Finished(c, ok) ==
  clients' = [clients EXCEPT ![c] = IF ok THEN NoRequest ELSE [@ EXCEPT !.at = "failed"]]

\* A room post looks for a session before it is sent.
Ask(c, call) ==
  /\ clients[c].at = "idle" /\ adminSpent.calls < MaxCalls
  /\ call.kind = "post" => Active
  /\ clients' = [clients EXCEPT ![c] = [at |-> "asked", kind |-> call.kind, peer |-> call.peer]]
  /\ adminSpent' = [adminSpent EXCEPT !.calls = @ + 1]
  /\ UNCHANGED <<session, exchanges, remembered, durable, inbox, step, accepted>>

\* No slot, a full queue or a timeout: the command will not run.
NotServed(c) ==
  /\ clients[c].at = "asked"
  /\ Finished(c, FALSE)
  /\ UNCHANGED <<session, exchanges, remembered, durable, inbox, step, accepted, adminSpent>>

\* The caller ends the session when its command failed, on its own task.
CallFails(c) ==
  /\ clients[c].at = "failed"
  /\ clients' = [clients EXCEPT ![c] = NoRequest]
  /\ IF clients[c].kind = "logout" THEN UNCHANGED session ELSE ReportFailure
  /\ UNCHANGED <<exchanges, remembered, durable, inbox, step, accepted, adminSpent>>

-----------------------------------------------------------------------------
(* The owner task: commands.                                               *)

Takes(c, kinds) == Idle /\ clients[c].at = "asked" /\ clients[c].kind \in kinds
Serving(c) == clients' = [clients EXCEPT ![c].at = "served"]
Rests == step' = Stage("idle", step.client, 0, 0, Empty)

\* What a handler refuses: no identity, contact, route or timestamp, no
\* permission, a session in the wrong state, or a post that is not sent.
Refuse(c) ==
  /\ Takes(c, {"login", "query", "text", "post"})
  /\ Finished(c, FALSE)
  /\ UNCHANGED <<session, exchanges, remembered, durable, inbox, step, accepted, adminSpent>>

Post(c) ==
  /\ Takes(c, {"post"}) /\ Active
  /\ Finished(c, TRUE)
  /\ UNCHANGED <<session, exchanges, remembered, durable, inbox, step, accepted, adminSpent>>

Logout(c) ==
  /\ Takes(c, {"logout"})
  /\ Fail
  /\ Finished(c, TRUE)
  /\ UNCHANGED <<exchanges, remembered, durable, inbox, step, accepted, adminSpent>>

\* meshcore_service_handle_admin_login, up to the transmission.
Login(c) ==
  /\ Takes(c, {"login"}) /\ session.state = "ended"
  /\ session' = LoginBegun(clients[c].peer)
  /\ exchanges' = exchanges + 1
  /\ Serving(c)
  /\ step' = Stage("send", c, session.generation + 1, exchanges + 1, Empty)
  /\ UNCHANGED <<remembered, durable, inbox, accepted, adminSpent>>

\* The handlers of the four requests: the session is captured, ...
Capture(c) ==
  /\ Takes(c, {"query", "text"}) /\ session.state = "authenticated"
  /\ Serving(c)
  /\ step' = Stage("bind", c, session.generation, 0, Empty)
  /\ UNCHANGED <<session, exchanges, remembered, durable, inbox, accepted, adminSpent>>

\* ... ended when its contact, route or identity is not what it was, ...
Unbound ==
  /\ step.at = "bind"
  /\ ReportFailure
  /\ Finished(step.client, FALSE)
  /\ Rests
  /\ UNCHANGED <<exchanges, remembered, durable, inbox, accepted, adminSpent>>

\* ... left alone when no packet can be built or another task ended it, ...
Unbuilt ==
  /\ step.at = "bind"
  /\ Finished(step.client, FALSE)
  /\ Rests
  /\ UNCHANGED <<session, exchanges, remembered, durable, inbox, accepted, adminSpent>>

\* ... or the request begins, unless a deadline has passed.
BeginRequest ==
  /\ step.at = "bind" /\ session.generation = step.generation
  /\ IF session.due # {}
     THEN Fail /\ Finished(step.client, FALSE) /\ Rests /\ UNCHANGED exchanges
     ELSE /\ session' = RequestBegun(clients[step.client].kind)
          /\ exchanges' = exchanges + 1
          /\ step' = Stage("send", step.client, session.generation + 1, exchanges + 1, Empty)
          /\ UNCHANGED clients
  /\ UNCHANGED <<remembered, durable, inbox, accepted, adminSpent>>

\* The packet is given to the radio, and the session told how that went: a
\* failure ends it if it is still the one of this exchange.
NoteTx(ok) ==
  /\ step.at = "send"
  /\ IF ~ok /\ session.generation = step.generation THEN Fail ELSE UNCHANGED session
  /\ Finished(step.client, ok)
  /\ Rests
  /\ UNCHANGED <<exchanges, remembered, durable, inbox, accepted, adminSpent>>

-----------------------------------------------------------------------------
(* The owner task: what is received.                                       *)

\* A response, a path packet or a reply finds that the contact or the identity
\* is not what the session captured; a room's message, that it is due.
SessionLost ==
  /\ Idle /\ (Pending \/ session.state = "text" \/ session.due # {})
  /\ Fail
  /\ UNCHANGED <<exchanges, remembered, durable, inbox, clients, step, accepted, adminSpent>>

\* A response from the peer is handed over, if there is room and time.
HandOver(s, b) ==
  /\ Idle /\ Pending /\ InTime /\ inbox[s] = Empty
  /\ inbox' = [inbox EXCEPT ![s] =
                 Handed(session.generation, session.exchange, session.peer, b)]
  /\ UNCHANGED <<session, exchanges, remembered, durable, clients, step, accepted, adminSpent>>

\* Faulty variant: a response is admitted for whatever is pending.
AdmissibleAnyhow(r) == Pending /\ InTime

\* d1l_mesh_admin_response_request_admit: only for the exchange it came in for.
Admissible(r) == Pending /\ InTime /\ r.generation = session.generation

Admit(s) ==
  /\ Idle /\ inbox[s] # Empty
  /\ inbox' = [inbox EXCEPT ![s] = Empty]
  /\ IF Admissible(inbox[s])
     THEN step' = [step EXCEPT !.at = "reply", !.generation = session.generation,
                               !.reply = inbox[s]]
     ELSE UNCHANGED step
  /\ UNCHANGED <<session, exchanges, remembered, durable, clients, accepted, adminSpent>>

\* replay_cache_contains and _remember: the slot that was filled first makes room.
Known(p, stamp) ==
  \E i \in 1..Len(remembered) : remembered[i].peer = p /\ stamp <= remembered[i].stamp
Remember(p, stamp) ==
  LET new == [peer |-> p, stamp |-> stamp] IN
  IF \E i \in 1..Len(remembered) : remembered[i].peer = p
  THEN [i \in 1..Len(remembered) |-> IF remembered[i].peer = p THEN new ELSE remembered[i]]
  ELSE IF Len(remembered) < CacheSize THEN Append(remembered, new)
       ELSE Append(Tail(remembered), new)

\* Faulty variant: a record of the peer does not bar what it holds.
OwnRecord(p, stamp) == durable[Key(p)] = NoRecord \/ durable[Key(p)].peer = p

\* durable_replay_commit: the record may be written if it is this peer's, not
\* a twin's, and older.
Newer(p, stamp) ==
  \/ durable[Key(p)] = NoRecord
  \/ durable[Key(p)].peer = p /\ stamp > durable[Key(p)].stamp
Record(p, stamp) == durable' = [durable EXCEPT ![Key(p)] = [peer |-> p, stamp |-> stamp]]

\* A login's response is accepted on a copy and the session takes the copy once
\* the record is in NVS.
AcceptLogin(stamp) ==
  /\ ~Known(session.peer, stamp) /\ Newer(session.peer, stamp)
  /\ Record(session.peer, stamp)
  /\ session' = Rested(stamp)
  /\ remembered' = Remember(session.peer, stamp)
  /\ accepted' = [accepted EXCEPT ![session.peer] = stamp]

\* The record cannot be read or written, or was written although NVS says no.
LoginNotStored(stamp) ==
  /\ ~Known(session.peer, stamp)
  /\ \/ UNCHANGED durable
     \/ Newer(session.peer, stamp) /\ Record(session.peer, stamp)
  /\ Fail
  /\ UNCHANGED <<remembered, accepted>>

\* Late, malformed, rejected, known to the cache, or not newer than the record.
ResponseFails == Fail /\ UNCHANGED <<remembered, durable, accepted>>

Interpret(b) ==
  \/ ResponseFails
  \/ session.state = "login" /\ b.kind = "login" /\ session.due = {}
       /\ (AcceptLogin(b.number) \/ LoginNotStored(b.number))
  \/ session.state = "query" /\ session.due = {}
       /\ UNCHANGED <<remembered, durable, accepted>>
       /\ IF b.kind = "tagged" /\ b.number = session.exchange
          THEN session' = Rested(session.stamp)
          ELSE UNCHANGED session

\* d1l_meshcore_admin_runtime_dispatch_response, or the session is not what it was.
Dispatch ==
  /\ step.at = "reply"
  /\ IF session.generation = step.generation
     THEN Interpret(step.reply.body)
     ELSE ReportFailure \/ UNCHANGED session
  /\ session.generation # step.generation => UNCHANGED <<remembered, durable, accepted>>
  /\ Rests
  /\ UNCHANGED <<exchanges, inbox, clients, adminSpent>>

\* A reply to a mutation or a CLI command has no tag, only a later timestamp.
TextReply(stamp) ==
  /\ Idle /\ session.state = "text"
  /\ IF session.due = {} /\ stamp > session.stamp
     THEN session' = Rested(stamp) \/ Fail
     ELSE Fail
  /\ UNCHANGED <<exchanges, remembered, durable, inbox, clients, step, accepted, adminSpent>>

-----------------------------------------------------------------------------
(* Time and restarts.                                                      *)

\* The deadline of the exchange, or the idle or absolute one of the session.
Due(d) ==
  /\ Idle /\ d \in (IF session.exchange # 0 THEN {"request"} ELSE {})
                     \cup (IF Active THEN {"session"} ELSE {})
  /\ session' = [session EXCEPT !.due = @ \cup {d}]
  /\ UNCHANGED <<exchanges, remembered, durable, inbox, clients, step, accepted, adminSpent>>

\* Owner maintenance: a due session times out, and slots whose response is not
\* for what is pending are freed.
AdminMaintain ==
  /\ Idle
  /\ IF session.due # {} THEN Fail ELSE UNCHANGED session
  /\ inbox' = [s \in ResponseSlots |->
                 IF session.due = {} /\ Pending /\ inbox[s].generation = session.generation
                 THEN inbox[s] ELSE Empty]
  /\ UNCHANGED <<exchanges, remembered, durable, clients, step, accepted, adminSpent>>

AdminReboot ==
  /\ adminSpent.reboots < MaxReboots
  /\ session' = [state |-> "ended", generation |-> 1, peer |-> NoPeer, stamp |-> 0,
                 exchange |-> 0, due |-> {}]
  /\ remembered' = <<>>
  /\ inbox' = [s \in ResponseSlots |-> Empty]
  /\ clients' = [c \in Clients |-> NoRequest]
  /\ Rests
  /\ adminSpent' = [adminSpent EXCEPT !.reboots = @ + 1]
  /\ UNCHANGED <<exchanges, durable, accepted>>

-----------------------------------------------------------------------------
ClientStep(c) == (\E call \in Calls : Ask(c, call)) \/ NotServed(c) \/ CallFails(c)
CommandStep(c) == Refuse(c) \/ Post(c) \/ Logout(c) \/ Login(c) \/ Capture(c)
HandlerStep == Unbound \/ Unbuilt \/ BeginRequest \/ (\E ok \in BOOLEAN : NoteTx(ok)) \/ Dispatch
ReceiveStep ==
  \/ SessionLost
  \/ \E s \in ResponseSlots : Admit(s) \/ (\E b \in Bodies : HandOver(s, b))
  \/ \E stamp \in ServerStamps : TextReply(stamp)

AdminNext ==
  \/ \E c \in Clients : ClientStep(c) \/ CommandStep(c)
  \/ HandlerStep \/ ReceiveStep \/ AdminMaintain \/ AdminReboot
  \/ \E d \in {"request", "session"} : Due(d)

AdminSpec == AdminInit /\ [][AdminNext]_adminVars

-----------------------------------------------------------------------------
(* Properties.                                                             *)

Responses == [generation : Nat, exchange : Nat, peer : Peers \cup {NoPeer},
              body : [kind : {"login"}, number : Nat \ {0}]
                       \cup [kind : {"tagged", "other"}, number : Nat]]
Sessions == [state : {"ended", "login", "authenticated", "query", "text"},
             generation : Nat \ {0}, peer : Peers \cup {NoPeer}, stamp : Nat,
             exchange : Nat, due : SUBSET {"request", "session"}]
CallStates == [at : {"idle", "asked", "served", "failed"},
               kind : {"none", "login", "query", "text", "post", "logout"},
               peer : Peers \cup {NoPeer}]
Stages == [at : {"idle", "bind", "send", "reply"}, client : Clients,
           generation : Nat, exchange : Nat, reply : Responses]

AdminTypeOK ==
  /\ session \in Sessions /\ (session.state # "ended" => session.peer \in Peers)
  /\ exchanges \in Nat
  /\ durable \in [{Key(p) : p \in Peers} -> [peer : Peers \cup {NoPeer}, stamp : Nat]]
  /\ inbox \in [ResponseSlots -> Responses]
  /\ clients \in [Clients -> CallStates]
  /\ \A c \in Clients : clients[c].kind = "login" => clients[c].peer \in Peers
  /\ step \in Stages
  /\ accepted \in [Peers -> Nat]

\* A login response of a peer is accepted at most once: never again after a
\* logout, an eviction from the cache, a restart or a failing write ("Runtime
\* code must bind this volatile guard to durable per-full-key storage before
\* exposing authenticated authority", meshcore_admin_dispatch.h).
LoginAcceptedOnce ==
  [][session.state = "login" /\ session'.state = "authenticated" =>
       session'.stamp > accepted[session.peer]]_adminVars

\* Authority rests on a record in NVS of the very login it came from.
AuthorityIsDurable ==
  Active => durable[Key(session.peer)] = [peer |-> session.peer,
                                          stamp |-> accepted[session.peer]]

\* Who remembers the current generation remembers the current exchange: the
\* owner in the middle of a handler, whose late outcome would otherwise strike
\* another exchange, and a response that waits in its slot.
GenerationNamesExchange ==
  /\ step.generation = session.generation =>
       /\ step.at = "send" => session.exchange = step.exchange
       /\ step.at = "reply" =>
            Pending /\ session.exchange = step.reply.exchange /\ session.peer = step.reply.peer
  /\ \A s \in ResponseSlots : inbox[s].generation = session.generation =>
       Pending /\ session.exchange = inbox[s].exchange /\ session.peer = inbox[s].peer

\* "the same task that owns every later Admin transition": a caller's task does
\* not change a session under way (meshcore_service.c:7078).
OwnerOnly ==
  [][session.state # "ended" /\ session' # session =>
       \A c \in Clients : ~CallFails(c)]_adminVars
=============================================================================
