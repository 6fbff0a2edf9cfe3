------------------------------- MODULE LoSend -------------------------------
(***************************************************************************)
(* The sockets of a program that uses liblo: those of its addresses and    *)
(* servers, made and closed by send.c, address.c and server.c, and the     *)
(* shared one of lo_client_sockets, through which all addresses send while *)
(* a UDP server is open.  The kernel hands out the lowest descriptor that  *)
(* is free, so one that was closed comes back for another use.             *)
(*                                                                         *)
(* A send or a new server goes from one system call to the next, each an   *)
(* action with its outcomes: those of getaddrinfo, socket, connect, bind   *)
(* and sendto are the environment's, and so is whether an address is       *)
(* resolved; all failures have one error number.  One thread makes the     *)
(* calls of the library, while a server's thread accepts streams between   *)
(* any two steps of theirs.  What a message holds is LoMessage's.          *)
(***************************************************************************)
EXTENDS Integers, FiniteSets

CONSTANTS
  Addresses, Servers,  \* the lo_address and lo_server objects of the program
  Fds,                 \* descriptors a process may open
  MaxTries,            \* attempts to bind a socket: 17 in the code
  None                 \* an object that is not there, a descriptor that is free

Closed == -1   \* socket == -1
LO_UDP == "udp"
LO_TCP == "tcp"
LO_UNIX == "unix"
Protocols == {LO_UDP, LO_TCP, LO_UNIX}
Error == 1     \* any error number

Use(p, u) == [protocol |-> p, use |-> u]   \* of a descriptor
Uses == [protocol : Protocols, use : {"client", "server", "accepted"}]
AddressObjects == [protocol : Protocols, socket : Fds \cup {Closed}, errnum : {0, Error}]
ServerObjects == [protocol : Protocols, socket : Fds]

(* The call in progress: a send of an address, through the socket it has   *)
(* chosen, or the making of a server, with the socket of the last attempt. *)
Idle == [at |-> "idle"]
Sends == [at : {"socket", "connect", "send"}, of : Addresses, socket : Fds \cup {Closed}]
Makings == [at : {"open", "bind"}, of : Servers, protocol : Protocols,
            tries : 0 .. MaxTries - 1, socket : Fds \cup {Closed}]

ASSUME SendAssumption ==
  /\ Fds \subseteq Nat /\ IsFiniteSet(Fds)
  /\ MaxTries \in Nat \ {0}
  /\ None \notin Uses \cup AddressObjects \cup ServerObjects

VARIABLES
  fd,      \* the open descriptors: the protocol and use of each
  addr,    \* the addresses: [protocol, socket, errnum]
  srv,     \* the servers: [protocol, socket]
  shared,  \* lo_client_sockets: [udp, tcp]
  stray,   \* open descriptors that the code has dropped without closing them
  sent,    \* the last send and whether it returned success: [to, ok]
  call     \* the call in progress

vars == <<fd, addr, srv, shared, stray, sent, call>>

NotSent == [to |-> None, ok |-> TRUE]

Init ==
  /\ fd = [f \in Fds |-> None]
  /\ addr = [a \in Addresses |-> None] /\ srv = [s \in Servers |-> None]
  /\ shared = [udp |-> Closed, tcp |-> Closed]
  /\ stray = {} /\ sent = NotSent /\ call = Idle

Free == {f \in Fds : fd[f] = None}
Lowest(f) == f \in Free /\ \A g \in Free : f <= g

With(f, use) == [fd EXCEPT ![f] = use]
Without(f) == [g \in Fds |-> IF g = f THEN None ELSE fd[g]]   \* close; nothing for -1

-----------------------------------------------------------------------------
(* Addresses. *)

(* lo_address_new and lo_address_new_from_url; the first makes UDP only.   *)
AddressNew(a, p) ==
  /\ call = Idle /\ addr[a] = None
  /\ addr' = [addr EXCEPT ![a] = [protocol |-> p, socket |-> Closed, errnum |-> 0]]
  /\ UNCHANGED <<fd, srv, shared, stray, sent, call>>

AddressFree(a) ==
  /\ call = Idle /\ addr[a] # None
  /\ fd' = Without(addr[a].socket)
  /\ addr' = [addr EXCEPT ![a] = None]
  /\ sent' = NotSent
  /\ UNCHANGED <<srv, shared, stray, call>>

-----------------------------------------------------------------------------
(* Sending. *)

Fails(a) == sent' = [to |-> a, ok |-> FALSE] /\ addr' = [addr EXCEPT ![a].errnum = Error]

(* lo_send with types it does not know or arguments that do not match; the *)
(* variants with a time or a server go on and send what there is.          *)
BadArguments(a) ==
  /\ call = Idle /\ addr[a] # None
  /\ Fails(a)
  /\ UNCHANGED <<fd, srv, shared, stray, call>>

(* send_data returns before it has a socket: the message is too long, or   *)
(* the address, when first used, cannot be resolved.                       *)
Unsendable(a) ==
  /\ call = Idle /\ addr[a] # None
  /\ Fails(a)
  /\ UNCHANGED <<fd, srv, shared, stray, call>>

(* The socket that is there already: the server's, the shared one, or the  *)
(* address's.                                                              *)
Existing(a, from) ==
  IF from # None THEN srv[from].socket
  ELSE IF addr[a].protocol = LO_UDP /\ shared.udp # Closed THEN shared.udp
  ELSE addr[a].socket

(* send_data has an address that is resolved and chooses its socket.       *)
Send(a, from) ==
  /\ call = Idle /\ addr[a] # None /\ (from # None => srv[from] # None)
  /\ LET f == Existing(a, from) IN
     call' = [at |-> IF f = Closed THEN "socket" ELSE "send", of |-> a, socket |-> f]
  /\ UNCHANGED <<fd, addr, srv, shared, stray, sent>>

At(stage, o) == call.at = stage /\ call.of = o

(* create_socket: socket, then, but for UDP, connect.                      *)
CreateSocket(a) ==
  /\ At("socket", a)
  /\ \E new \in Fds :
       /\ Lowest(new)
       /\ fd' = With(new, Use(addr[a].protocol, "client"))
       /\ addr' = [addr EXCEPT ![a].socket = new]
       /\ call' = [call EXCEPT !.at = IF addr[a].protocol = LO_UDP THEN "send" ELSE "connect",
                               !.socket = new]
  /\ UNCHANGED <<srv, shared, stray, sent>>

SocketFails(a) ==
  /\ At("socket", a)
  /\ Fails(a)
  /\ call' = Idle
  /\ UNCHANGED <<fd, srv, shared, stray>>

Connects(a) ==
  /\ At("connect", a)
  /\ call' = [call EXCEPT !.at = "send"]
  /\ UNCHANGED <<fd, addr, srv, shared, stray, sent>>

Left(a, f, e) ==
  [addr EXCEPT ![a] = [protocol |-> addr[a].protocol, socket |-> f, errnum |-> e]]

Unconnected(a) ==
  /\ sent' = [to |-> a, ok |-> FALSE]
  /\ addr' = Left(a, Closed, Error)
  /\ call' = Idle
  /\ UNCHANGED <<srv, shared, stray>>

ConnectFails_open(a) ==
  /\ At("connect", a)
  /\ Unconnected(a)
  /\ UNCHANGED fd

ConnectFails(a) ==
  /\ At("connect", a)
  /\ fd' = Without(addr[a].socket)
  /\ Unconnected(a)

(* A socket sends what it is asked to if it is of the right kind: a server *)
(* of streams only listens, one of a path has no peer, and the server a    *)
(* program sends from may be of another protocol than the address.         *)
CanSend(f, p) == fd[f] # None /\ fd[f].protocol = p /\ (p = LO_UDP \/ fd[f].use = "client")

AfterSend_keepsTcp(a) == addr[a].socket
AfterSend(a) == IF addr[a].protocol = LO_TCP THEN Closed ELSE addr[a].socket

Errnum_kept(a, ok) == IF ok THEN addr[a].errnum ELSE Error
Errnum(a, ok) == IF ok THEN 0 ELSE Error

(* send_data to its end.  The address's stream is closed after a message,  *)
(* whichever socket the message went through.                              *)
Transmit(a) ==
  /\ At("send", a)
  /\ \E ok \in BOOLEAN :
       /\ ok => CanSend(call.socket, addr[a].protocol)
       /\ sent' = [to |-> a, ok |-> ok]
       /\ addr' = Left(a, AfterSend(a), Errnum(a, ok))
  /\ fd' = IF addr[a].protocol = LO_TCP THEN Without(addr[a].socket) ELSE fd
  /\ call' = Idle
  /\ UNCHANGED <<srv, shared, stray>>

-----------------------------------------------------------------------------
(* Servers. *)

ServerNew(s, p) ==
  /\ call = Idle /\ srv[s] = None
  /\ call' = [at |-> "open", of |-> s, protocol |-> p, tries |-> 0, socket |-> Closed]
  /\ UNCHANGED <<fd, addr, srv, shared, stray, sent>>

(* The socket of the attempt before, which found its port in use: the next *)
(* attempt overwrites it.                                                  *)
Overwritten == {call.socket} \ {Closed}

OpenServer(s) ==
  /\ At("open", s)
  /\ \E new \in Fds :
       /\ Lowest(new)
       /\ fd' = With(new, Use(call.protocol, "server"))
       /\ call' = [call EXCEPT !.at = "bind", !.socket = new]
  /\ stray' = stray \cup Overwritten
  /\ UNCHANGED <<addr, srv, shared, sent>>

(* getaddrinfo fails, and the server is dropped as it is, or socket fails, *)
(* and lo_server_free finds no socket to close.                            *)
CannotOpen(s) ==
  /\ At("open", s)
  /\ stray' = stray \cup Overwritten
  /\ call' = Idle
  /\ UNCHANGED <<fd, addr, srv, shared, sent>>

Shares(p, f) ==
  CASE p = LO_UDP -> [shared EXCEPT !.udp = f]
    [] p = LO_TCP -> [shared EXCEPT !.tcp = f]
    [] OTHER -> shared

Bound(s) ==
  /\ At("bind", s)
  /\ srv' = [srv EXCEPT ![s] = [protocol |-> call.protocol, socket |-> call.socket]]
  /\ shared' = Shares(call.protocol, call.socket)
  /\ call' = Idle
  /\ UNCHANGED <<fd, addr, stray, sent>>

(* The port is in use and another is tried; a path has one attempt.        *)
PortInUse(s) ==
  /\ At("bind", s)
  /\ call.protocol # LO_UNIX /\ call.tries + 1 < MaxTries
  /\ call' = [call EXCEPT !.at = "open", !.tries = @ + 1]
  /\ UNCHANGED <<fd, addr, srv, shared, stray, sent>>

(* The descriptors of lo_server_free. *)
Unshared_never(p, f) == shared
Unshared(p, f) ==
  CASE p = LO_UDP /\ f = shared.udp -> [shared EXCEPT !.udp = Closed]
    [] p = LO_TCP /\ f = shared.tcp -> [shared EXCEPT !.tcp = Closed]
    [] OTHER -> shared

Frees(p, f) == fd' = Without(f) /\ shared' = Unshared(p, f)

(* bind or inet_aton fails for good, or all the ports were in use.         *)
BindFails(s) ==
  /\ At("bind", s)
  /\ Frees(call.protocol, call.socket)
  /\ call' = Idle
  /\ UNCHANGED <<addr, srv, stray, sent>>

ServerFree(s) ==
  /\ call = Idle /\ srv[s] # None
  /\ Frees(srv[s].protocol, srv[s].socket)
  /\ srv' = [srv EXCEPT ![s] = None]
  /\ UNCHANGED <<addr, stray, sent, call>>

(* lo_server_recv_raw_stream: the connection it accepts is not closed,     *)
(* unless its message is too large.                                        *)
Accept(s) ==
  /\ srv[s] # None /\ srv[s].protocol = LO_TCP
  /\ \E new \in Fds :
       /\ Lowest(new)
       /\ fd' = With(new, Use(LO_TCP, "accepted"))
       /\ stray' = stray \cup {new}
  /\ UNCHANGED <<addr, srv, shared, sent, call>>

-----------------------------------------------------------------------------
Next ==
  \/ \E a \in Addresses :
       \/ \E p \in Protocols : AddressNew(a, p)
       \/ AddressFree(a)
       \/ BadArguments(a) \/ Unsendable(a)
       \/ \E from \in Servers \cup {None} : Send(a, from)
       \/ CreateSocket(a) \/ SocketFails(a)
       \/ Connects(a) \/ ConnectFails(a)
       \/ Transmit(a)
  \/ \E s \in Servers :
       \/ \E p \in Protocols : ServerNew(s, p)
       \/ OpenServer(s) \/ CannotOpen(s)
       \/ Bound(s) \/ PortInUse(s) \/ BindFails(s)
       \/ ServerFree(s) \/ Accept(s)

Spec == Init /\ [][Next]_vars

-----------------------------------------------------------------------------
(* Who holds a socket: an address, a server, or a server in the making.    *)
Owners ==
  {<<"address", a>> : a \in {a \in Addresses : addr[a] # None /\ addr[a].socket # Closed}}
    \cup {<<"server", s>> : s \in {s \in Servers : srv[s] # None}}
    \cup {<<"making", s>> : s \in {s \in Servers : (At("open", s) \/ At("bind", s))
                                                     /\ call.socket # Closed}}

HolderOf(o) ==
  CASE o[1] = "address" -> addr[o[2]]
    [] o[1] = "server" -> srv[o[2]]
    [] o[1] = "making" -> call

SocketOf(o) == HolderOf(o).socket
UseOf(o) == Use(HolderOf(o).protocol, IF o[1] = "address" THEN "client" ELSE "server")

(* "Return the error number from the last failed lo_send": the number is   *)
(* there after a send that failed, whatever failed and whatever was sent   *)
(* before, and gone after one that did not.                                *)
ErrnumTells ==
  sent.to # None => (sent.ok <=> addr[sent.to].errnum = 0)

(* Types, and errnum. *)
TypeOK ==
  /\ fd \in [Fds -> Uses \cup {None}]
  /\ addr \in [Addresses -> AddressObjects \cup {None}]
  /\ srv \in [Servers -> ServerObjects \cup {None}]
  /\ shared \in [udp : Fds \cup {Closed}, tcp : Fds \cup {Closed}]
  /\ stray \subseteq Fds
  /\ call \in {Idle} \cup Sends \cup Makings
  /\ ErrnumTells

(* Through every order of making, using and freeing addresses and servers, *)
(* with failures in between, the socket an address, a server or a server   *)
(* in the making holds is open, is what it made it for, and is its own: no *)
(* close hits a descriptor that was handed out again.                      *)
NoDescriptorTwice ==
  \A o \in Owners :
    /\ fd[SocketOf(o)] = UseOf(o)
    /\ SocketOf(o) \notin stray
    /\ \A other \in Owners : SocketOf(other) = SocketOf(o) => other = o

(* The socket all UDP addresses send through is that of a UDP server that  *)
(* is there, never a descriptor that was closed and opened for other use.  *)
SharedIsLive ==
  /\ shared.udp # Closed =>
       \E s \in Servers : srv[s] = [protocol |-> LO_UDP, socket |-> shared.udp]
  /\ shared.tcp # Closed =>
       \E s \in Servers : srv[s] = [protocol |-> LO_TCP, socket |-> shared.tcp]

(* Whatever call failed, and at whichever of its steps, and whatever was   *)
(* sent and freed: a descriptor that nothing holds is one of a port that   *)
(* was in use, or of an accepted stream.                                   *)
NothingElseOpen ==
  \A f \in Fds : fd[f] # None => f \in stray \/ \E o \in Owners : SocketOf(o) = f

=============================================================================
