---------------------------- MODULE LoSendProofs ----------------------------
(***************************************************************************)
(* What LoSend guarantees for any number of addresses, servers and         *)
(* descriptors.                                                            *)
(***************************************************************************)
EXTENDS LoSend, TLAPS

USE SendAssumption

-----------------------------------------------------------------------------
(* Who may hold a socket, the socket it holds and the use it is for; both  *)
(* as functions, so that a step of any holder is an update of them.        *)
Keys == ({"address"} \X Addresses) \cup ({"server", "making"} \X Servers)

Making(s) == At("open", s) \/ At("bind", s)

Sockets == [o \in Keys |->
  IF o[1] = "address" THEN IF addr[o[2]] = None THEN Closed ELSE addr[o[2]].socket
  ELSE IF o[1] = "server" THEN IF srv[o[2]] = None THEN Closed ELSE srv[o[2]].socket
  ELSE IF Making(o[2]) THEN call.socket ELSE Closed]

Purposes == [o \in Keys |->
  IF o[1] = "address" THEN Use(addr[o[2]].protocol, "client")
  ELSE IF o[1] = "server" THEN Use(srv[o[2]].protocol, "server")
  ELSE Use(call.protocol, "server")]

(* With sockets S held for the purposes U, descriptors d and strays x:     *)
(* each holder has its own, open for its purpose and not stray; each open  *)
(* descriptor is held or stray; a stray is open, so never handed out.      *)
Kept(S, U, d, x) ==
  /\ \A o \in Keys : S[o] # Closed =>
       /\ S[o] \in Fds \ x
       /\ d[S[o]] = U[o]
       /\ U[o] # None
       /\ \A q \in Keys : S[q] = S[o] => q = o
  /\ \A f \in Fds : d[f] # None => f \in x \/ \E o \in Keys : S[o] = f
  /\ \A f \in x : f \in Fds /\ d[f] # None

(* What a holder other than o has is the same in S and T.                  *)
SameBut(o, S, U, T, V) ==
  \A q \in Keys \ {o} : T[q] = S[q] /\ (S[q] # Closed => V[q] = U[q])

-----------------------------------------------------------------------------
(* What the steps do to the holders. *)

(* A holder closes what it has, if it has something. *)
LEMMA Closing ==
  ASSUME NEW S, NEW U, NEW T, NEW V, NEW d, NEW e, NEW x, Kept(S, U, d, x),
         NEW o \in Keys, SameBut(o, S, U, T, V), T[o] = Closed,
         \A g \in Fds : e[g] = IF g = S[o] THEN None ELSE d[g]
  PROVE  Kept(T, V, e, x)
<1>1. \A q \in Keys : T[q] # Closed => q # o /\ T[q] = S[q] /\ V[q] = U[q] /\ S[q] # S[o]
  BY DEF SameBut, Kept
<1>2. ASSUME NEW q \in Keys, T[q] # Closed
      PROVE  /\ T[q] \in Fds \ x /\ e[T[q]] = V[q] /\ V[q] # None
             /\ \A r \in Keys : T[r] = T[q] => r = q
  <2>1. T[q] = S[q] /\ V[q] = U[q] /\ S[q] # S[o]
    BY <1>1, <1>2
  <2>2. S[q] \in Fds \ x /\ d[S[q]] = U[q] /\ U[q] # None /\ \A r \in Keys : S[r] = S[q] => r = q
    BY <1>2, <2>1 DEF Kept
  <2>3. ASSUME NEW r \in Keys, T[r] = T[q]
        PROVE  r = q
    BY <1>1, <1>2, <2>1, <2>2, <2>3
  <2>4. QED
    BY <2>1, <2>2, <2>3
<1>3. ASSUME NEW f \in Fds, e[f] # None
      PROVE  f \in x \/ \E q \in Keys : T[q] = f
  <2>1. f # S[o] /\ d[f] # None
    BY <1>3
  <2>2. QED
    BY <2>1 DEF Kept, SameBut
<1>4. ASSUME NEW f \in x
      PROVE  f \in Fds /\ e[f] # None
  <2>1. f \in Fds /\ d[f] # None
    BY DEF Kept
  <2>2. f # S[o]
    BY <2>1 DEF Kept, Closed
  <2>3. QED
    BY <2>1, <2>2
<1>5. QED
  BY <1>2, <1>3, <1>4 DEF Kept

(* A holder without a socket gets one that nobody has. *)
LEMMA Opening ==
  ASSUME NEW S, NEW U, NEW T, NEW V, NEW d, NEW e, NEW x, Kept(S, U, d, x),
         NEW o \in Keys, SameBut(o, S, U, T, V), S[o] = Closed,
         NEW f \in Fds, T[o] = f, d[f] = None, V[o] # None,
         \A g \in Fds : e[g] = IF g = f THEN V[o] ELSE d[g]
  PROVE  Kept(T, V, e, x)
<1>1. \A q \in Keys \ {o} : T[q] # Closed =>
        T[q] = S[q] /\ V[q] = U[q] /\ S[q] \in Fds \ x /\ d[S[q]] = U[q] /\ U[q] # None
  BY DEF SameBut, Kept
<1>2. \A q \in Keys \ {o} : T[q] # f
  BY <1>1 DEF Closed
<1>3. f \notin x
  BY DEF Kept
<1>4. ASSUME NEW q \in Keys, T[q] # Closed
      PROVE  /\ T[q] \in Fds \ x /\ e[T[q]] = V[q] /\ V[q] # None
             /\ \A r \in Keys : T[r] = T[q] => r = q
  <2>1. CASE q = o
    BY <1>2, <1>3, <2>1
  <2>2. CASE q # o
    <3>1. T[q] = S[q] /\ S[q] \in Fds \ x /\ e[T[q]] = V[q] /\ V[q] # None
      BY <1>1, <1>2, <1>4, <2>2
    <3>2. \A r \in Keys : T[r] = T[q] => r # o /\ S[r] = S[q]
      BY <1>2, <2>2, <3>1 DEF SameBut
    <3>3. QED
      BY <1>4, <3>1, <3>2 DEF Kept
  <2>3. QED
    BY <2>1, <2>2
<1>5. ASSUME NEW g \in Fds, e[g] # None
      PROVE  g \in x \/ \E q \in Keys : T[q] = g
  <2>1. CASE g = f
    BY <2>1
  <2>2. CASE g # f
    <3>1. d[g] # None
      BY <1>5, <2>2
    <3>2. g \in x \/ \E q \in Keys : S[q] = g
      BY <3>1 DEF Kept
    <3>3. S[o] # g
      BY DEF Closed
    <3>4. QED
      BY <3>2, <3>3 DEF SameBut
  <2>3. QED
    BY <2>1, <2>2
<1>6. \A g \in x : g \in Fds /\ e[g] # None
  BY <1>3 DEF Kept
<1>7. QED
  BY <1>4, <1>5, <1>6 DEF Kept

(* A holder drops what it has, if it has something, and leaves it open.    *)
LEMMA Dropping ==
  ASSUME NEW S, NEW U, NEW T, NEW V, NEW d, NEW x, NEW y, Kept(S, U, d, x),
         NEW o \in Keys, SameBut(o, S, U, T, V), T[o] = Closed,
         y = x \cup ({S[o]} \ {Closed})
  PROVE  Kept(T, V, d, y)
<1>1. \A q \in Keys : T[q] # Closed => q # o /\ T[q] = S[q] /\ V[q] = U[q] /\ S[q] # S[o]
  BY DEF SameBut, Kept
<1>2. ASSUME NEW q \in Keys, T[q] # Closed
      PROVE  /\ T[q] \in Fds \ y /\ d[T[q]] = V[q] /\ V[q] # None
             /\ \A r \in Keys : T[r] = T[q] => r = q
  <2>1. T[q] = S[q] /\ V[q] = U[q] /\ S[q] # S[o]
    BY <1>1, <1>2
  <2>2. S[q] \in Fds \ x /\ d[S[q]] = U[q] /\ U[q] # None /\ \A r \in Keys : S[r] = S[q] => r = q
    BY <1>2, <2>1 DEF Kept
  <2>3. ASSUME NEW r \in Keys, T[r] = T[q]
        PROVE  r = q
    BY <1>1, <1>2, <2>1, <2>2, <2>3
  <2>4. QED
    BY <2>1, <2>2, <2>3
<1>3. ASSUME NEW f \in Fds, d[f] # None
      PROVE  f \in y \/ \E q \in Keys : T[q] = f
  <2>1. CASE f = S[o]
    BY <2>1 DEF Closed
  <2>2. CASE f # S[o]
    BY <1>3, <2>2 DEF Kept, SameBut
  <2>3. QED
    BY <2>1, <2>2
<1>4. \A f \in y : f \in Fds /\ d[f] # None
  BY DEF Kept
<1>5. QED
  BY <1>2, <1>3, <1>4 DEF Kept

(* A descriptor is opened that nobody will hold. *)
LEMMA Straying ==
  ASSUME NEW S, NEW U, NEW d, NEW e, NEW x, Kept(S, U, d, x),
         NEW f \in Fds, d[f] = None, NEW u, u # None,
         \A g \in Fds : e[g] = IF g = f THEN u ELSE d[g]
  PROVE  Kept(S, U, e, x \cup {f})
<1>1. \A q \in Keys : S[q] # Closed => S[q] # f
  BY DEF Kept
<1>2. QED
  BY <1>1 DEF Kept

(* One holder hands its socket to another that had none. *)
LEMMA Moving ==
  ASSUME NEW S, NEW U, NEW T, NEW V, NEW d, NEW x, Kept(S, U, d, x),
         NEW o \in Keys, NEW n \in Keys, o # n,
         \A q \in Keys \ {o, n} : T[q] = S[q] /\ (S[q] # Closed => V[q] = U[q]),
         S[o] # Closed, S[n] = Closed, T[o] = Closed, T[n] = S[o], V[n] = U[o]
  PROVE  Kept(T, V, d, x)
<1>1. ASSUME NEW q \in Keys, T[q] # Closed
      PROVE  /\ T[q] \in Fds \ x /\ d[T[q]] = V[q] /\ V[q] # None
             /\ \A r \in Keys : T[r] = T[q] => r = q
  <2>1. CASE q = n
    BY <2>1 DEF Kept
  <2>2. CASE q # n
    BY <1>1, <2>2 DEF Kept
  <2>3. QED
    BY <2>1, <2>2
<1>2. \A f \in Fds : d[f] # None => f \in x \/ \E q \in Keys : T[q] = f
  BY DEF Kept, Closed
<1>3. \A f \in x : f \in Fds /\ d[f] # None
  BY DEF Kept
<1>4. QED
  BY <1>1, <1>2, <1>3 DEF Kept

(* Nobody's socket changes. *)
LEMMA Keeping ==
  ASSUME NEW S, NEW U, NEW T, NEW V, NEW d, NEW x, Kept(S, U, d, x),
         \A q \in Keys : T[q] = S[q] /\ (S[q] # Closed => V[q] = U[q])
  PROVE  Kept(T, V, d, x)
BY DEF Kept

-----------------------------------------------------------------------------
(* The holders of a state and of the next one. *)
LEMMA KeysAre ==
  /\ \A a \in Addresses : <<"address", a>> \in Keys
  /\ \A s \in Servers : <<"server", s>> \in Keys /\ <<"making", s>> \in Keys
  /\ \A o \in Keys : \/ \E a \in Addresses : o = <<"address", a>>
                     \/ \E s \in Servers : o = <<"server", s>>
                     \/ \E s \in Servers : o = <<"making", s>>
BY DEF Keys

LEMMA AddressHolds ==
  ASSUME NEW a \in Addresses
  PROVE  /\ Sockets[<<"address", a>>] = IF addr[a] = None THEN Closed ELSE addr[a].socket
         /\ Purposes[<<"address", a>>] = Use(addr[a].protocol, "client")
         /\ Sockets'[<<"address", a>>] = IF addr'[a] = None THEN Closed ELSE addr'[a].socket
         /\ Purposes'[<<"address", a>>] = Use(addr'[a].protocol, "client")
BY KeysAre DEF Sockets, Purposes

LEMMA ServerHolds ==
  ASSUME NEW s \in Servers
  PROVE  /\ Sockets[<<"server", s>>] = IF srv[s] = None THEN Closed ELSE srv[s].socket
         /\ Purposes[<<"server", s>>] = Use(srv[s].protocol, "server")
         /\ Sockets'[<<"server", s>>] = IF srv'[s] = None THEN Closed ELSE srv'[s].socket
         /\ Purposes'[<<"server", s>>] = Use(srv'[s].protocol, "server")
BY KeysAre DEF Sockets, Purposes

LEMMA MakingHolds ==
  ASSUME NEW s \in Servers
  PROVE  /\ Sockets[<<"making", s>>] = IF Making(s) THEN call.socket ELSE Closed
         /\ Purposes[<<"making", s>>] = Use(call.protocol, "server")
         /\ Sockets'[<<"making", s>>] = IF Making(s)' THEN call'.socket ELSE Closed
         /\ Purposes'[<<"making", s>>] = Use(call'.protocol, "server")
BY KeysAre DEF Sockets, Purposes

(* A step of one holder. *)
LEMMA AddressSteps ==
  ASSUME NEW a \in Addresses, \A b \in Addresses \ {a} : addr'[b] = addr[b], UNCHANGED srv,
         \A s \in Servers : ~ Making(s) /\ ~ Making(s)'
  PROVE  SameBut(<<"address", a>>, Sockets, Purposes, Sockets', Purposes')
<1> SUFFICES ASSUME NEW q \in Keys \ {<<"address", a>>}
             PROVE  /\ Sockets'[q] = Sockets[q]
                    /\ Sockets[q] # Closed => Purposes'[q] = Purposes[q]
  BY DEF SameBut
<1>1. CASE \E b \in Addresses : q = <<"address", b>>
  BY <1>1, AddressHolds
<1>2. CASE \E s \in Servers : q = <<"server", s>>
  BY <1>2, ServerHolds
<1>3. CASE \E s \in Servers : q = <<"making", s>>
  BY <1>3, MakingHolds
<1>4. QED
  BY <1>1, <1>2, <1>3, KeysAre

LEMMA ServerSteps ==
  ASSUME NEW s \in Servers, \A t \in Servers \ {s} : srv'[t] = srv[t], UNCHANGED addr,
         \A t \in Servers : ~ Making(t) /\ ~ Making(t)'
  PROVE  SameBut(<<"server", s>>, Sockets, Purposes, Sockets', Purposes')
<1> SUFFICES ASSUME NEW q \in Keys \ {<<"server", s>>}
             PROVE  /\ Sockets'[q] = Sockets[q]
                    /\ Sockets[q] # Closed => Purposes'[q] = Purposes[q]
  BY DEF SameBut
<1>1. CASE \E a \in Addresses : q = <<"address", a>>
  BY <1>1, AddressHolds
<1>2. CASE \E t \in Servers : q = <<"server", t>>
  BY <1>2, ServerHolds
<1>3. CASE \E t \in Servers : q = <<"making", t>>
  BY <1>3, MakingHolds
<1>4. QED
  BY <1>1, <1>2, <1>3, KeysAre

LEMMA MakingSteps ==
  ASSUME NEW s \in Servers, UNCHANGED <<addr, srv>>,
         \A t \in Servers \ {s} : ~ Making(t) /\ ~ Making(t)'
  PROVE  SameBut(<<"making", s>>, Sockets, Purposes, Sockets', Purposes')
<1> SUFFICES ASSUME NEW q \in Keys \ {<<"making", s>>}
             PROVE  /\ Sockets'[q] = Sockets[q]
                    /\ Sockets[q] # Closed => Purposes'[q] = Purposes[q]
  BY DEF SameBut
<1>1. CASE \E a \in Addresses : q = <<"address", a>>
  BY <1>1, AddressHolds
<1>2. CASE \E t \in Servers : q = <<"server", t>>
  BY <1>2, ServerHolds
<1>3. CASE \E t \in Servers : q = <<"making", t>>
  BY <1>3, MakingHolds
<1>4. QED
  BY <1>1, <1>2, <1>3, KeysAre

-----------------------------------------------------------------------------
(* The invariant: the types, that the last send was of an address that is  *)
(* there, that the call in progress fits its object, and who holds what.   *)
Objects ==
  /\ TypeOK
  /\ sent \in [to : Addresses \cup {None}, ok : BOOLEAN]
  /\ sent.to # None => addr[sent.to] # None

CallFits ==
  /\ \A a \in Addresses :
       /\ At("socket", a) => addr[a] # None /\ addr[a].socket = Closed
       /\ At("connect", a) \/ At("send", a) => addr[a] # None
  /\ \A s \in Servers :
       /\ Making(s) => srv[s] = None
       /\ At("bind", s) => call.socket # Closed

Inv == Objects /\ CallFits /\ Kept(Sockets, Purposes, fd, stray) /\ SharedIsLive

(* A use of a descriptor is a record of its own, and no use is None.       *)
LEMMA UsesDiffer ==
  ASSUME NEW p \in Protocols, NEW q \in Protocols
  PROVE  /\ Use(p, "client") \in Uses /\ Use(p, "server") \in Uses /\ Use(p, "accepted") \in Uses
         /\ Use(p, "client") # Use(q, "server")
         /\ Use(p, "client") # None /\ Use(p, "server") # None /\ Use(p, "accepted") # None
BY DEF Use, Uses

(* What the types say of a call and of an object. *)
LEMMA CallsAre ==
  ASSUME TypeOK
  PROVE  /\ \A a \in Addresses : At("socket", a) \/ At("connect", a) \/ At("send", a) =>
              call \in Sends /\ \A s \in Servers : ~ Making(s)
         /\ \A s \in Servers : Making(s) =>
              call \in Makings /\ \A t \in Servers \ {s} : ~ Making(t)
         /\ call = Idle => \A s \in Servers : ~ Making(s)
BY DEF TypeOK, Idle, Sends, Makings, At, Making

LEMMA ObjectsAre ==
  ASSUME TypeOK
  PROVE  /\ \A a \in Addresses : addr[a] # None =>
              /\ addr[a] \in AddressObjects
              /\ addr[a].protocol \in Protocols /\ addr[a].socket \in Fds \cup {Closed}
         /\ \A s \in Servers : srv[s] # None =>
              /\ srv[s] \in ServerObjects
              /\ srv[s].protocol \in Protocols /\ srv[s].socket \in Fds
BY DEF TypeOK, AddressObjects, ServerObjects

(* Nothing is open at first. *)
LEMMA InitInv == Init => Inv
<1> SUFFICES ASSUME Init PROVE Inv
  OBVIOUS
<1>1. \A o \in Keys : Sockets[o] = Closed
  <2>1. \A s \in Servers : ~ Making(s) /\ srv[s] = None
    BY DEF Init, Making, At, Idle
  <2>2. \A a \in Addresses : addr[a] = None
    BY DEF Init
  <2>3. QED
    BY <2>1, <2>2, KeysAre, AddressHolds, ServerHolds, MakingHolds
<1>2. Kept(Sockets, Purposes, fd, stray)
  BY <1>1 DEF Kept, Init
<1>3. Objects
  BY DEF Init, Objects, TypeOK, ErrnumTells, NotSent, Closed
<1>4. CallFits
  BY DEF Init, CallFits, Making, At, Idle
<1>5. SharedIsLive
  BY DEF Init, SharedIsLive
<1>6. QED
  BY <1>2, <1>3, <1>4, <1>5 DEF Inv

-----------------------------------------------------------------------------
(* The actions, one by one: addresses and sends. *)

(* A failure before there is a socket changes an error number only.        *)
LEMMA FailuresPreserve ==
  ASSUME Inv, NEW a \in Addresses, addr[a] # None, \A s \in Servers : ~ Making(s),
         Fails(a), call' = Idle, UNCHANGED <<fd, srv, shared, stray>>
  PROVE  Inv'
<1>1. TypeOK /\ addr[a] \in AddressObjects
  BY ObjectsAre DEF Inv, Objects
<1>2. addr' = [addr EXCEPT ![a].errnum = Error] /\ sent' = [to |-> a, ok |-> FALSE]
  BY DEF Fails
<1>3. /\ addr'[a] \in AddressObjects /\ addr'[a] # None
      /\ addr'[a].socket = addr[a].socket /\ addr'[a].protocol = addr[a].protocol
      /\ addr'[a].errnum = Error
      /\ \A b \in Addresses \ {a} : addr'[b] = addr[b]
  BY <1>1, <1>2 DEF TypeOK, AddressObjects
<1>4. \A s \in Servers : ~ Making(s)'
  BY DEF Making, At, Idle
<1>5. Kept(Sockets', Purposes', fd', stray')
  <2>1. \A q \in Keys : Sockets'[q] = Sockets[q] /\ (Sockets[q] # Closed => Purposes'[q] = Purposes[q])
    BY <1>3, <1>4, AddressSteps, AddressHolds DEF SameBut
  <2>2. QED
    BY <2>1, Keeping DEF Inv
<1>6. Objects'
  BY <1>1, <1>2, <1>3 DEF Objects, TypeOK, ErrnumTells, Error
<1>7. CallFits'
  BY <1>4 DEF CallFits, At, Idle, Making
<1>8. SharedIsLive'
  BY DEF Inv, SharedIsLive
<1>9. QED
  BY <1>5, <1>6, <1>7, <1>8 DEF Inv

(* A new address has no socket yet. *)
LEMMA AddressNewPreserves ==
  ASSUME Inv, NEW a \in Addresses, NEW p \in Protocols, AddressNew(a, p)
  PROVE  Inv'
<1>1. /\ addr' = [addr EXCEPT ![a] = [protocol |-> p, socket |-> Closed, errnum |-> 0]]
      /\ call = Idle /\ addr[a] = None
      /\ UNCHANGED <<fd, srv, shared, stray, sent, call>>
  BY DEF AddressNew
<1>2. TypeOK
  BY DEF Inv, Objects
<1>3. [protocol |-> p, socket |-> Closed, errnum |-> 0] \in AddressObjects
  BY DEF AddressObjects
<1>4. /\ addr'[a] = [protocol |-> p, socket |-> Closed, errnum |-> 0]
      /\ \A b \in Addresses \ {a} : addr'[b] = addr[b]
  BY <1>1, <1>2 DEF TypeOK
<1>5. \A s \in Servers : ~ Making(s) /\ ~ Making(s)'
  BY <1>1 DEF Making, At, Idle
<1>6. Kept(Sockets', Purposes', fd', stray')
  <2>1. Sockets[<<"address", a>>] = Closed /\ Sockets'[<<"address", a>>] = Closed
    BY <1>1, <1>4, AddressHolds
  <2>2. \A q \in Keys : Sockets'[q] = Sockets[q] /\ (Sockets[q] # Closed => Purposes'[q] = Purposes[q])
    BY <1>1, <1>4, <1>5, <2>1, AddressSteps DEF SameBut
  <2>3. QED
    BY <1>1, <2>2, Keeping DEF Inv
<1>7. Objects'
  BY <1>1, <1>2, <1>3, <1>4 DEF Inv, Objects, TypeOK, ErrnumTells
<1>8. CallFits'
  BY <1>1, <1>5 DEF CallFits, At, Idle
<1>9. SharedIsLive'
  BY <1>1 DEF Inv, SharedIsLive
<1>10. QED
  BY <1>6, <1>7, <1>8, <1>9 DEF Inv

(* Freeing an address closes what it holds. *)
LEMMA AddressFreePreserves ==
  ASSUME Inv, NEW a \in Addresses, AddressFree(a)
  PROVE  Inv'
<1>1. /\ addr' = [addr EXCEPT ![a] = None] /\ addr[a] # None /\ call = Idle
      /\ fd' = Without(addr[a].socket) /\ sent' = NotSent
      /\ UNCHANGED <<srv, shared, stray, call>>
  BY DEF AddressFree
<1>2. TypeOK
  BY DEF Inv, Objects
<1>3. addr'[a] = None /\ \A b \in Addresses \ {a} : addr'[b] = addr[b]
  BY <1>1, <1>2 DEF TypeOK
<1>4. \A s \in Servers : ~ Making(s) /\ ~ Making(s)'
  BY <1>1 DEF Making, At, Idle
<1>5. Kept(Sockets', Purposes', fd', stray')
  <2>1. Sockets[<<"address", a>>] = addr[a].socket /\ Sockets'[<<"address", a>>] = Closed
    BY <1>1, <1>3, AddressHolds
  <2>2. SameBut(<<"address", a>>, Sockets, Purposes, Sockets', Purposes')
    BY <1>1, <1>3, <1>4, AddressSteps
  <2>3. \A g \in Fds : fd'[g] = IF g = Sockets[<<"address", a>>] THEN None ELSE fd[g]
    BY <1>1, <2>1 DEF Without
  <2>4. QED
    BY <1>1, <2>1, <2>2, <2>3, KeysAre, Closing DEF Inv
<1>6. Objects'
  BY <1>1, <1>2, <1>3 DEF Objects, TypeOK, ErrnumTells, NotSent, Without
<1>7. CallFits'
  BY <1>1, <1>4 DEF CallFits, At, Idle
<1>8. SharedIsLive'
  BY <1>1 DEF Inv, SharedIsLive
<1>9. QED
  BY <1>5, <1>6, <1>7, <1>8 DEF Inv

(* Choosing the socket of a send, and connecting it, change the call only. *)
LEMMA CallsPreserve ==
  ASSUME Inv, NEW a \in Addresses, addr[a] # None,
         \A s \in Servers : ~ Making(s),
         call' \in Sends, call'.of = a, call'.at = "socket" => addr[a].socket = Closed,
         UNCHANGED <<fd, addr, srv, shared, stray, sent>>
  PROVE  Inv'
<1>1. \A s \in Servers : ~ Making(s)'
  BY DEF Making, At, Sends
<1>2. Kept(Sockets', Purposes', fd', stray')
  <2>1. \A q \in Keys : Sockets'[q] = Sockets[q] /\ (Sockets[q] # Closed => Purposes'[q] = Purposes[q])
    BY <1>1, AddressSteps, AddressHolds DEF SameBut
  <2>2. QED
    BY <2>1, Keeping DEF Inv
<1>3. Objects'
  BY DEF Inv, Objects, TypeOK, ErrnumTells
<1>4. CallFits'
  BY <1>1 DEF CallFits, At, Making
<1>5. SharedIsLive'
  BY DEF Inv, SharedIsLive
<1>6. QED
  BY <1>2, <1>3, <1>4, <1>5 DEF Inv

LEMMA SendPreserves ==
  ASSUME Inv, NEW a \in Addresses, NEW from \in Servers \cup {None}, Send(a, from)
  PROVE  Inv'
<1> DEFINE f == Existing(a, from)
<1>1. TypeOK /\ addr[a] # None /\ call = Idle
  BY DEF Send, Inv, Objects
<1>2. call' = [at |-> IF f = Closed THEN "socket" ELSE "send", of |-> a, socket |-> f]
  BY DEF Send
<1>3. from # None => srv[from].socket \in Fds
  BY <1>1, ObjectsAre DEF Send
<1>4. f \in Fds \cup {Closed}
  BY <1>1, <1>3, ObjectsAre DEF Existing, TypeOK
<1>5. f = Closed => addr[a].socket = Closed
  BY <1>3 DEF Existing, Closed
<1>6. \A s \in Servers : ~ Making(s)
  BY <1>1, CallsAre
<1>7. call' \in Sends /\ call'.of = a /\ (call'.at = "socket" => addr[a].socket = Closed)
  BY <1>2, <1>4, <1>5 DEF Sends
<1>8. QED
  BY <1>1, <1>6, <1>7, CallsPreserve DEF Send

(* A new socket is its address's at once. *)
LEMMA CreateSocketPreserves ==
  ASSUME Inv, NEW a \in Addresses, CreateSocket(a)
  PROVE  Inv'
<1>1. /\ TypeOK /\ addr[a] # None /\ addr[a].socket = Closed /\ addr[a] \in AddressObjects
      /\ addr[a].protocol \in Protocols
      /\ call \in Sends /\ call.of = a /\ \A s \in Servers : ~ Making(s)
  BY ObjectsAre, CallsAre DEF CreateSocket, Inv, Objects, CallFits, At
<1>2. PICK new \in Fds :
        /\ Lowest(new)
        /\ fd' = With(new, Use(addr[a].protocol, "client"))
        /\ addr' = [addr EXCEPT ![a].socket = new]
        /\ call' = [call EXCEPT !.at = IF addr[a].protocol = LO_UDP THEN "send" ELSE "connect",
                                !.socket = new]
  BY DEF CreateSocket
<1>3. UNCHANGED <<srv, shared, stray, sent>>
  BY DEF CreateSocket
<1>4. /\ addr'[a] \in AddressObjects /\ addr'[a] # None
      /\ addr'[a].socket = new /\ addr'[a].protocol = addr[a].protocol
      /\ addr'[a].errnum = addr[a].errnum
      /\ \A b \in Addresses \ {a} : addr'[b] = addr[b]
  BY <1>1, <1>2 DEF TypeOK, AddressObjects
<1>5. call' \in Sends /\ call'.of = a /\ call'.at # "socket"
  BY <1>1, <1>2 DEF Sends
<1>6. \A s \in Servers : ~ Making(s)'
  BY <1>5 DEF Making, At, Sends
<1>7. fd[new] = None
  BY <1>2 DEF Lowest, Free
<1>8. Use(addr[a].protocol, "client") \in Uses /\ Use(addr[a].protocol, "client") # None
  BY <1>1, UsesDiffer
<1>9. Kept(Sockets', Purposes', fd', stray')
  <2>1. /\ Sockets[<<"address", a>>] = Closed /\ Sockets'[<<"address", a>>] = new
        /\ Purposes'[<<"address", a>>] = Use(addr[a].protocol, "client")
    BY <1>1, <1>4, AddressHolds
  <2>2. SameBut(<<"address", a>>, Sockets, Purposes, Sockets', Purposes')
    BY <1>1, <1>3, <1>4, <1>6, AddressSteps
  <2>3. \A g \in Fds : fd'[g] = IF g = new THEN Purposes'[<<"address", a>>] ELSE fd[g]
    BY <1>1, <1>2, <2>1 DEF With, TypeOK
  <2>4. /\ Kept(Sockets, Purposes, fd, stray) /\ <<"address", a>> \in Keys
        /\ Purposes'[<<"address", a>>] # None
    BY <1>8, <2>1, KeysAre DEF Inv
  <2>5. Kept(Sockets', Purposes', fd', stray)
    BY <1>7, <2>1, <2>2, <2>3, <2>4, Opening
  <2>6. QED
    BY <1>3, <2>5
<1>10. Objects'
  <2>1. fd' \in [Fds -> Uses \cup {None}]
    BY <1>1, <1>2, <1>8 DEF TypeOK, With
  <2>2. addr' \in [Addresses -> AddressObjects \cup {None}]
    BY <1>1, <1>2, <1>4 DEF TypeOK
  <2>3. ErrnumTells'
    BY <1>3, <1>4 DEF Inv, Objects, TypeOK, ErrnumTells
  <2>4. QED
    BY <1>3, <1>4, <1>5, <2>1, <2>2, <2>3 DEF Inv, Objects, TypeOK
<1>11. CallFits'
  BY <1>4, <1>5, <1>6 DEF CallFits, At, Making
<1>12. SharedIsLive'
  BY <1>3 DEF Inv, SharedIsLive
<1>13. QED
  BY <1>9, <1>10, <1>11, <1>12 DEF Inv

(* A send that ends leaves its address with the socket it had, or closes   *)
(* that: after a failed connect, and after each message of a stream.       *)
LEMMA EndsPreserve ==
  ASSUME Inv, NEW a \in Addresses, addr[a] # None, \A s \in Servers : ~ Making(s),
         NEW ok \in BOOLEAN, NEW new, NEW e \in {0, Error}, ok <=> e = 0,
         sent' = [to |-> a, ok |-> ok],
         addr' = Left(a, new, e),
         \/ new = Closed /\ fd' = Without(addr[a].socket)
         \/ new = addr[a].socket /\ fd' = fd,
         call' = Idle, UNCHANGED <<srv, shared, stray>>
  PROVE  Inv'
<1>1. TypeOK /\ addr[a] \in AddressObjects /\ addr[a].socket \in Fds \cup {Closed}
  BY ObjectsAre DEF Inv, Objects
<1>2. /\ addr'[a] \in AddressObjects /\ addr'[a] # None
      /\ addr'[a].socket = new /\ addr'[a].protocol = addr[a].protocol
      /\ addr'[a].errnum = e
      /\ \A b \in Addresses \ {a} : addr'[b] = addr[b]
  <2>1. new \in Fds \cup {Closed}
    BY <1>1
  <2>2. addr'[a] = [protocol |-> addr[a].protocol, socket |-> new, errnum |-> e]
    BY <1>1 DEF TypeOK, Left
  <2>3. addr'[a] \in AddressObjects
    BY <1>1, <2>1, <2>2 DEF AddressObjects
  <2>4. \A b \in Addresses \ {a} : addr'[b] = addr[b]
    BY <1>1 DEF TypeOK, Left
  <2>5. QED
    BY <2>2, <2>3, <2>4
<1>3. \A s \in Servers : ~ Making(s)'
  BY DEF Making, At, Idle
<1>4. SameBut(<<"address", a>>, Sockets, Purposes, Sockets', Purposes')
  BY <1>2, <1>3, AddressSteps
<1>5. /\ Sockets[<<"address", a>>] = addr[a].socket /\ Sockets'[<<"address", a>>] = new
      /\ Purposes'[<<"address", a>>] = Purposes[<<"address", a>>]
  BY <1>2, AddressHolds
<1>6. Kept(Sockets', Purposes', fd', stray')
  <2>1. CASE new = Closed /\ fd' = Without(addr[a].socket)
    <3>1. \A g \in Fds : fd'[g] = IF g = Sockets[<<"address", a>>] THEN None ELSE fd[g]
      BY <1>5, <2>1 DEF Without
    <3>2. QED
      BY <1>4, <1>5, <2>1, <3>1, KeysAre, Closing DEF Inv
  <2>2. CASE new = addr[a].socket /\ fd' = fd
    BY <1>4, <1>5, <2>2, Keeping DEF Inv, SameBut
  <2>3. QED
    BY <2>1, <2>2
<1>7. Objects'
  <2>1. fd' \in [Fds -> Uses \cup {None}]
    BY <1>1 DEF TypeOK, Without
  <2>2. addr' \in [Addresses -> AddressObjects \cup {None}]
    BY <1>1, <1>2 DEF TypeOK, Left
  <2>3. ErrnumTells'
    BY <1>2 DEF ErrnumTells
  <2>4. QED
    BY <1>1, <1>2, <2>1, <2>2, <2>3 DEF Objects, TypeOK
<1>8. CallFits'
  BY <1>3 DEF CallFits, At, Idle, Making
<1>9. SharedIsLive'
  BY DEF Inv, SharedIsLive
<1>10. QED
  BY <1>6, <1>7, <1>8, <1>9 DEF Inv

LEMMA ConnectFailsPreserves ==
  ASSUME Inv, NEW a \in Addresses, ConnectFails(a)
  PROVE  Inv'
<1>1. addr[a] # None /\ \A s \in Servers : ~ Making(s)
  BY CallsAre DEF ConnectFails, Inv, Objects, CallFits
<1>2. /\ sent' = [to |-> a, ok |-> FALSE] /\ addr' = Left(a, Closed, Error)
      /\ fd' = Without(addr[a].socket)
      /\ call' = Idle /\ UNCHANGED <<srv, shared, stray>>
  BY DEF ConnectFails, Unconnected
<1>3. FALSE <=> Error = 0
  BY DEF Error
<1>4. QED
  BY <1>1, <1>2, <1>3, EndsPreserve

LEMMA TransmitPreserves ==
  ASSUME Inv, NEW a \in Addresses, Transmit(a)
  PROVE  Inv'
<1>1. addr[a] # None /\ \A s \in Servers : ~ Making(s)
  BY CallsAre DEF Transmit, Inv, Objects, CallFits
<1>2. PICK ok \in BOOLEAN :
        sent' = [to |-> a, ok |-> ok] /\ addr' = Left(a, AfterSend(a), Errnum(a, ok))
  BY DEF Transmit
<1>3. Errnum(a, ok) \in {0, Error} /\ (ok <=> Errnum(a, ok) = 0)
  BY DEF Errnum, Error
<1>4. \/ AfterSend(a) = Closed /\ fd' = Without(addr[a].socket)
      \/ AfterSend(a) = addr[a].socket /\ fd' = fd
  BY DEF Transmit, AfterSend
<1>5. call' = Idle /\ UNCHANGED <<srv, shared, stray>>
  BY DEF Transmit
<1>6. QED
  BY <1>1, <1>2, <1>3, <1>4, <1>5, EndsPreserve

-----------------------------------------------------------------------------
(* The actions, one by one: servers. *)

(* What the types say while a server is in the making. *)
LEMMA MakingIs ==
  ASSUME Inv, NEW s \in Servers, Making(s)
  PROVE  /\ TypeOK /\ call \in Makings /\ call.of = s /\ srv[s] = None
         /\ call.protocol \in Protocols /\ call.socket \in Fds \cup {Closed}
         /\ \A t \in Servers \ {s} : ~ Making(t)
         /\ Sockets[<<"making", s>>] = call.socket
         /\ Purposes[<<"making", s>>] = Use(call.protocol, "server")
         /\ Sockets[<<"server", s>>] = Closed
<1>1. /\ TypeOK /\ call \in Makings /\ srv[s] = None /\ call.of = s
      /\ \A t \in Servers \ {s} : ~ Making(t)
  BY CallsAre DEF Inv, Objects, CallFits, Making, At
<1>2. QED
  BY <1>1, ServerHolds, MakingHolds DEF Makings

(* The call of lo_server_new begins without a socket, and retries with the *)
(* one it has.                                                             *)
LEMMA AttemptsPreserve ==
  ASSUME Inv, NEW s \in Servers, srv[s] = None,
         call' \in Makings, call'.of = s, call'.at = "open",
         \A t \in Servers \ {s} : ~ Making(t),
         \/ ~ Making(s) /\ call'.socket = Closed
         \/ Making(s) /\ call'.socket = call.socket /\ call'.protocol = call.protocol,
         UNCHANGED <<fd, addr, srv, shared, stray, sent>>
  PROVE  Inv'
<1>1. Making(s)' /\ \A t \in Servers \ {s} : ~ Making(t)'
  BY DEF Making, At, Makings
<1>2. SameBut(<<"making", s>>, Sockets, Purposes, Sockets', Purposes')
  BY <1>1, MakingSteps
<1>3. /\ Sockets'[<<"making", s>>] = Sockets[<<"making", s>>]
      /\ Sockets[<<"making", s>>] # Closed =>
           Purposes'[<<"making", s>>] = Purposes[<<"making", s>>]
  BY <1>1, MakingHolds
<1>4. Kept(Sockets', Purposes', fd', stray')
  BY <1>2, <1>3, Keeping DEF Inv, SameBut
<1>5. Objects'
  BY DEF Inv, Objects, TypeOK, ErrnumTells
<1>6. CallFits'
  BY <1>1 DEF CallFits, At, Makings
<1>7. SharedIsLive'
  BY DEF Inv, SharedIsLive
<1>8. QED
  BY <1>4, <1>5, <1>6, <1>7 DEF Inv

LEMMA ServerNewPreserves ==
  ASSUME Inv, NEW s \in Servers, NEW p \in Protocols, ServerNew(s, p)
  PROVE  Inv'
<1>1. /\ call = Idle /\ srv[s] = None
      /\ call' = [at |-> "open", of |-> s, protocol |-> p, tries |-> 0, socket |-> Closed]
      /\ UNCHANGED <<fd, addr, srv, shared, stray, sent>>
  BY DEF ServerNew
<1>2. call' \in Makings
  BY <1>1 DEF Makings
<1>3. \A t \in Servers : ~ Making(t)
  BY <1>1, CallsAre DEF Inv, Objects
<1>4. QED
  BY <1>1, <1>2, <1>3, AttemptsPreserve

LEMMA PortInUsePreserves ==
  ASSUME Inv, NEW s \in Servers, PortInUse(s)
  PROVE  Inv'
<1>1. /\ call.tries + 1 < MaxTries
      /\ call' = [call EXCEPT !.at = "open", !.tries = @ + 1]
      /\ Making(s) /\ UNCHANGED <<fd, addr, srv, shared, stray, sent>>
  BY DEF PortInUse, Making
<1>2. /\ call \in Makings /\ call.of = s /\ srv[s] = None
      /\ \A t \in Servers \ {s} : ~ Making(t)
  BY <1>1, MakingIs
<1>3. /\ call' \in Makings /\ call'.at = "open" /\ call'.of = s
      /\ call'.socket = call.socket /\ call'.protocol = call.protocol
  <2>1. call.tries + 1 \in 0 .. MaxTries - 1
    BY <1>1, <1>2 DEF Makings
  <2>2. PICK l \in {"open", "bind"}, p \in Protocols, n \in 0 .. MaxTries - 1, f \in Fds \cup {Closed} :
          call = [at |-> l, of |-> s, protocol |-> p, tries |-> n, socket |-> f]
    BY <1>2 DEF Makings
  <2>3. call' = [at |-> "open", of |-> s, protocol |-> p, tries |-> call.tries + 1, socket |-> f]
    BY <1>1, <2>2
  <2>4. QED
    BY <2>1, <2>2, <2>3 DEF Makings
<1>4. QED
  BY <1>1, <1>2, <1>3, AttemptsPreserve

(* The call gives up, and drops what the attempt before left it. *)
LEMMA CannotOpenPreserves ==
  ASSUME Inv, NEW s \in Servers, CannotOpen(s)
  PROVE  Inv'
<1>1. /\ Making(s) /\ stray' = stray \cup Overwritten /\ call' = Idle
      /\ UNCHANGED <<fd, addr, srv, shared, sent>>
  BY DEF CannotOpen, Making
<1>2. \A t \in Servers : ~ Making(t)'
  BY <1>1 DEF Making, At, Idle
<1>3. Kept(Sockets', Purposes', fd, stray')
  <2>1. SameBut(<<"making", s>>, Sockets, Purposes, Sockets', Purposes')
    BY <1>1, <1>2, MakingIs, MakingSteps
  <2>2. Sockets'[<<"making", s>>] = Closed
    BY <1>2, MakingHolds
  <2>3. stray' = stray \cup ({Sockets[<<"making", s>>]} \ {Closed})
    BY <1>1, MakingIs DEF Overwritten
  <2>4. QED
    BY <2>1, <2>2, <2>3, KeysAre, Dropping DEF Inv
<1>4. Objects'
  BY <1>1, MakingIs DEF Inv, Objects, TypeOK, ErrnumTells, Overwritten
<1>5. CallFits'
  BY <1>1, <1>2 DEF CallFits, At, Idle
<1>6. SharedIsLive'
  BY <1>1 DEF Inv, SharedIsLive
<1>7. QED
  BY <1>1, <1>3, <1>4, <1>5, <1>6 DEF Inv

(* It drops that and opens another. *)
LEMMA OpenServerPreserves ==
  ASSUME Inv, NEW s \in Servers, OpenServer(s)
  PROVE  Inv'
<1> DEFINE o == <<"making", s>>
           between == [Sockets EXCEPT ![o] = Closed]
<1>1. PICK new \in Fds :
        /\ Lowest(new)
        /\ fd' = With(new, Use(call.protocol, "server"))
        /\ call' = [call EXCEPT !.at = "bind", !.socket = new]
  BY DEF OpenServer
<1>2. Making(s) /\ stray' = stray \cup Overwritten /\ UNCHANGED <<addr, srv, shared, sent>>
  BY DEF OpenServer, Making
<1>3. /\ call' \in Makings /\ call'.at = "bind" /\ call'.of = s /\ call'.socket = new
      /\ call'.protocol = call.protocol
  BY <1>1, <1>2, MakingIs DEF Makings
<1>4. Making(s)' /\ \A t \in Servers \ {s} : ~ Making(t)'
  BY <1>3 DEF Making, At
<1>5. fd[new] = None
  BY <1>1 DEF Lowest, Free
<1>6. Use(call.protocol, "server") \in Uses /\ Use(call.protocol, "server") # None
  BY <1>2, MakingIs, UsesDiffer
<1>7. Kept(Sockets', Purposes', fd', stray')
  <2>1. o \in Keys /\ between[o] = Closed /\ \A q \in Keys \ {o} : between[q] = Sockets[q]
    BY KeysAre DEF Sockets
  <2>2. stray' = stray \cup ({Sockets[o]} \ {Closed})
    BY <1>2, MakingIs DEF Overwritten
  <2>3. SameBut(o, Sockets, Purposes, Sockets', Purposes')
    BY <1>2, <1>4, MakingIs, MakingSteps
  <2>4. Sockets'[o] = new /\ Purposes'[o] = Use(call.protocol, "server")
    BY <1>3, <1>4, MakingHolds
  <2>5. \A g \in Fds : fd'[g] = IF g = new THEN Purposes'[o] ELSE fd[g]
    BY <1>1, <1>2, <2>4, MakingIs DEF With, TypeOK
  <2> HIDE DEF o, between
  <2>6. SameBut(o, Sockets, Purposes, between, Purposes)
    BY <2>1 DEF SameBut
  <2>7. Kept(between, Purposes, fd, stray')
    BY <2>1, <2>2, <2>6, Dropping DEF Inv
  <2>8. SameBut(o, between, Purposes, Sockets', Purposes')
    BY <2>1, <2>3 DEF SameBut
  <2>9. Purposes'[o] # None
    BY <1>6, <2>4
  <2>10. QED
    BY <1>5, <2>1, <2>4, <2>5, <2>7, <2>8, <2>9, Opening
<1>8. Objects'
  <2>1. fd' \in [Fds -> Uses \cup {None}]
    BY <1>1, <1>2, <1>6, MakingIs DEF TypeOK, With
  <2>2. stray' \subseteq Fds
    BY <1>2, MakingIs DEF TypeOK, Overwritten
  <2>3. QED
    BY <1>2, <1>3, <2>1, <2>2 DEF Inv, Objects, TypeOK, ErrnumTells
<1>9. CallFits'
  <2>1. new # Closed
    BY DEF Closed
  <2>2. srv[s] = None
    BY <1>2, MakingIs
  <2>3. QED
    BY <1>2, <1>3, <1>4, <2>1, <2>2 DEF CallFits, At
<1>10. SharedIsLive'
  BY <1>2 DEF Inv, SharedIsLive
<1>11. QED
  BY <1>7, <1>8, <1>9, <1>10 DEF Inv

(* A server that is bound has the socket of its last attempt, and the      *)
(* program's clients share it.                                             *)
LEMMA BoundPreserves ==
  ASSUME Inv, NEW s \in Servers, Bound(s)
  PROVE  Inv'
<1> DEFINE o == <<"making", s>>
           n == <<"server", s>>
           p == call.protocol
           f == call.socket
<1>1. /\ Making(s) /\ srv' = [srv EXCEPT ![s] = [protocol |-> p, socket |-> f]]
      /\ shared' = Shares(p, f)
      /\ call' = Idle /\ UNCHANGED <<fd, addr, stray, sent>>
  BY DEF Bound, Making
<1>2. TypeOK /\ srv[s] = None /\ p \in Protocols /\ f \in Fds
  BY <1>1, MakingIs DEF Bound, Inv, CallFits
<1>3. [protocol |-> p, socket |-> f] \in ServerObjects
  BY <1>2 DEF ServerObjects
<1>4. /\ srv'[s] = [protocol |-> p, socket |-> f] /\ srv'[s] # None
      /\ \A t \in Servers \ {s} : srv'[t] = srv[t]
  BY <1>1, <1>2, <1>3 DEF TypeOK
<1>5. \A t \in Servers : ~ Making(t)'
  BY <1>1 DEF Making, At, Idle
<1>6. Kept(Sockets', Purposes', fd', stray')
  <2>1. /\ Sockets[o] = f /\ Purposes[o] = Use(p, "server") /\ Sockets[n] = Closed
        /\ Sockets'[o] = Closed /\ Sockets'[n] = f /\ Purposes'[n] = Use(p, "server")
    BY <1>1, <1>4, <1>5, MakingIs, MakingHolds, ServerHolds
  <2>2. ASSUME NEW q \in Keys \ {o, n}
        PROVE  Sockets'[q] = Sockets[q] /\ (Sockets[q] # Closed => Purposes'[q] = Purposes[q])
    <3>1. CASE \E a \in Addresses : q = <<"address", a>>
      BY <1>1, <3>1, AddressHolds
    <3>2. CASE \E t \in Servers : q = <<"server", t>>
      BY <1>4, <3>2, ServerHolds
    <3>3. CASE \E t \in Servers : q = <<"making", t>>
      BY <1>1, <1>5, <3>3, MakingIs, MakingHolds
    <3>4. QED
      BY <3>1, <3>2, <3>3, KeysAre
  <2>3. o \in Keys /\ n \in Keys /\ o # n /\ f # Closed
    BY <1>2, KeysAre DEF Closed
  <2> HIDE DEF o, n, p, f
  <2>4. Kept(Sockets', Purposes', fd, stray)
    BY <2>1, <2>2, <2>3, Moving DEF Inv
  <2>5. QED
    BY <1>1, <2>4
<1>7. Objects'
  <2>1. shared' \in [udp : Fds \cup {Closed}, tcp : Fds \cup {Closed}]
    BY <1>1, <1>2 DEF Shares, TypeOK
  <2>2. srv' \in [Servers -> ServerObjects \cup {None}]
    BY <1>1, <1>2, <1>3 DEF TypeOK
  <2>3. QED
    BY <1>1, <2>1, <2>2 DEF Inv, Objects, TypeOK, ErrnumTells
<1>8. CallFits'
  BY <1>1, <1>5 DEF CallFits, At, Idle
<1>9. SharedIsLive'
  <2>1. \A t \in Servers : srv[t] # None => srv'[t] = srv[t]
    BY <1>2, <1>4
  <2>2. \A t \in Servers, q \in {LO_UDP, LO_TCP}, g \in Fds :
          srv[t] = [protocol |-> q, socket |-> g] => srv'[t] = srv[t]
    BY <2>1 DEF ServerObjects, Protocols
  <2>3. ASSUME shared'.udp # Closed
        PROVE  \E t \in Servers : srv'[t] = [protocol |-> LO_UDP, socket |-> shared'.udp]
    <3>1. CASE p = LO_UDP
      <4>1. shared'.udp = f
        BY <1>1, <1>2, <3>1 DEF Shares, LO_UDP, LO_TCP, TypeOK
      <4>2. QED
        BY <1>4, <3>1, <4>1
    <3>2. CASE p # LO_UDP
      <4>1. shared'.udp = shared.udp
        BY <1>1, <1>2, <3>2 DEF Shares, TypeOK
      <4>2. shared.udp \in Fds
        BY <1>2, <2>3, <4>1 DEF TypeOK
      <4>3. QED
        BY <2>2, <2>3, <4>1, <4>2 DEF Inv, SharedIsLive
    <3>3. QED
      BY <3>1, <3>2
  <2>4. ASSUME shared'.tcp # Closed
        PROVE  \E t \in Servers : srv'[t] = [protocol |-> LO_TCP, socket |-> shared'.tcp]
    <3>1. CASE p = LO_TCP
      <4>1. shared'.tcp = f
        BY <1>1, <1>2, <3>1 DEF Shares, LO_UDP, LO_TCP, TypeOK
      <4>2. QED
        BY <1>4, <3>1, <4>1
    <3>2. CASE p # LO_TCP
      <4>1. shared'.tcp = shared.tcp
        BY <1>1, <1>2, <3>2 DEF Shares, TypeOK
      <4>2. shared.tcp \in Fds
        BY <1>2, <2>4, <4>1 DEF TypeOK
      <4>3. QED
        BY <2>2, <2>4, <4>1, <4>2 DEF Inv, SharedIsLive
    <3>3. QED
      BY <3>1, <3>2
  <2>5. QED
    BY <2>3, <2>4 DEF SharedIsLive
<1>10. QED
  BY <1>6, <1>7, <1>8, <1>9 DEF Inv

(* The shared sockets are those of servers that are there. *)
LEMMA SharedAre ==
  ASSUME Inv, NEW f \in Fds
  PROVE  /\ shared.udp = f => \E t \in Servers :
              srv[t] = [protocol |-> LO_UDP, socket |-> f] /\ Sockets[<<"server", t>>] = f
         /\ shared.tcp = f => \E t \in Servers :
              srv[t] = [protocol |-> LO_TCP, socket |-> f] /\ Sockets[<<"server", t>>] = f
<1>1. \A q \in {LO_UDP, LO_TCP}, t \in Servers :
        srv[t] = [protocol |-> q, socket |-> f] => Sockets[<<"server", t>>] = f
  BY ServerHolds DEF ServerObjects, Protocols
<1>2. QED
  BY <1>1 DEF Inv, SharedIsLive, Closed

(* A server that could not be bound never shared its socket.               *)
LEMMA BindFailsPreserves ==
  ASSUME Inv, NEW s \in Servers, BindFails(s)
  PROVE  Inv'
<1> DEFINE o == <<"making", s>>
           f == call.socket
<1>1. /\ Making(s) /\ fd' = Without(f) /\ shared' = Unshared(call.protocol, f)
      /\ call' = Idle /\ UNCHANGED <<addr, srv, stray, sent>>
  BY DEF BindFails, Frees, Making
<1>2. TypeOK /\ f \in Fds
  BY <1>1, MakingIs DEF BindFails, Inv, CallFits
<1>3. \A t \in Servers : ~ Making(t)'
  BY <1>1 DEF Making, At, Idle
<1>4. Kept(Sockets', Purposes', fd', stray')
  <2>1. SameBut(o, Sockets, Purposes, Sockets', Purposes')
    BY <1>1, <1>3, MakingIs, MakingSteps
  <2>2. Sockets[o] = f /\ Sockets'[o] = Closed /\ o \in Keys
    BY <1>1, <1>3, MakingIs, MakingHolds, KeysAre
  <2>3. \A g \in Fds : fd'[g] = IF g = Sockets[o] THEN None ELSE fd[g]
    BY <1>1, <2>2 DEF Without
  <2> HIDE DEF o, f
  <2>4. Kept(Sockets', Purposes', fd', stray)
    BY <2>1, <2>2, <2>3, Closing DEF Inv
  <2>5. QED
    BY <1>1, <2>4
<1>5. shared' = shared
  <2>1. \A t \in Servers : Sockets[<<"server", t>>] # f
    <3>1. f # Closed
      BY <1>2 DEF Closed
    <3>2. Sockets[o] = f
      BY <1>1, MakingIs
    <3>3. o \in Keys /\ \A t \in Servers : <<"server", t>> \in Keys /\ <<"server", t>> # o
      BY KeysAre
    <3> HIDE DEF o, f
    <3>4. \A q \in Keys : Sockets[q] = f => q = o
      BY <3>1, <3>2, <3>3 DEF Inv, Kept
    <3>5. QED
      BY <3>3, <3>4
  <2>2. shared.udp # f /\ shared.tcp # f
    BY <1>2, <2>1, SharedAre
  <2>3. QED
    BY <1>1, <2>2 DEF Unshared
<1>6. Objects'
  BY <1>1, <1>2, <1>5 DEF Inv, Objects, TypeOK, ErrnumTells, Without
<1>7. CallFits'
  BY <1>1, <1>3 DEF CallFits, At, Idle
<1>8. SharedIsLive'
  BY <1>1, <1>5 DEF Inv, SharedIsLive
<1>9. QED
  BY <1>4, <1>6, <1>7, <1>8 DEF Inv

(* A server that goes takes the shared socket with it when that is its own.*)
LEMMA ServerFreePreserves ==
  ASSUME Inv, NEW s \in Servers, ServerFree(s)
  PROVE  Inv'
<1> DEFINE o == <<"server", s>>
           p == srv[s].protocol
           f == srv[s].socket
<1>1. /\ call = Idle /\ srv[s] # None /\ srv' = [srv EXCEPT ![s] = None]
      /\ fd' = Without(f) /\ shared' = Unshared(p, f)
      /\ UNCHANGED <<addr, stray, sent, call>>
  BY DEF ServerFree, Frees
<1>2. TypeOK /\ f \in Fds
  BY <1>1, ObjectsAre DEF Inv, Objects
<1>3. srv'[s] = None /\ \A t \in Servers \ {s} : srv'[t] = srv[t]
  BY <1>1, <1>2 DEF TypeOK
<1>4. \A t \in Servers : ~ Making(t) /\ ~ Making(t)'
  BY <1>1 DEF Making, At, Idle
<1>5. Kept(Sockets', Purposes', fd', stray')
  <2>1. SameBut(o, Sockets, Purposes, Sockets', Purposes')
    BY <1>1, <1>3, <1>4, ServerSteps
  <2>2. Sockets[o] = f /\ Sockets'[o] = Closed /\ o \in Keys
    BY <1>1, <1>3, ServerHolds, KeysAre
  <2>3. \A g \in Fds : fd'[g] = IF g = Sockets[o] THEN None ELSE fd[g]
    BY <1>1, <2>2 DEF Without
  <2> HIDE DEF o, f
  <2>4. Kept(Sockets', Purposes', fd', stray)
    BY <2>1, <2>2, <2>3, Closing DEF Inv
  <2>5. QED
    BY <1>1, <2>4
<1>6. shared' \in [udp : Fds \cup {Closed}, tcp : Fds \cup {Closed}]
  BY <1>1, <1>2 DEF Unshared, TypeOK
<1>7. Objects'
  BY <1>1, <1>2, <1>6 DEF Inv, Objects, TypeOK, ErrnumTells, Without
<1>8. CallFits'
  BY <1>1, <1>3, <1>4 DEF CallFits, At, Idle
<1>9. SharedIsLive'
  <2>1. ASSUME shared'.udp # Closed
        PROVE  \E t \in Servers : srv'[t] = [protocol |-> LO_UDP, socket |-> shared'.udp]
    <3>1. shared'.udp = shared.udp
      BY <1>1, <1>2, <2>1 DEF Unshared, TypeOK
    <3>2. PICK t \in Servers : srv[t] = [protocol |-> LO_UDP, socket |-> shared.udp]
      BY <2>1, <3>1 DEF Inv, SharedIsLive
    <3>3. t # s
      <4> SUFFICES ASSUME t = s PROVE FALSE
        OBVIOUS
      <4>1. p = LO_UDP /\ f = shared.udp
        BY <3>2
      <4>2. shared' = [shared EXCEPT !.udp = Closed]
        BY <1>1, <4>1 DEF Unshared, LO_UDP, LO_TCP
      <4>3. QED
        BY <1>2, <2>1, <4>2 DEF TypeOK
    <3>4. QED
      BY <1>3, <3>1, <3>2, <3>3
  <2>2. ASSUME shared'.tcp # Closed
        PROVE  \E t \in Servers : srv'[t] = [protocol |-> LO_TCP, socket |-> shared'.tcp]
    <3>1. shared'.tcp = shared.tcp
      BY <1>1, <1>2, <2>2 DEF Unshared, TypeOK
    <3>2. PICK t \in Servers : srv[t] = [protocol |-> LO_TCP, socket |-> shared.tcp]
      BY <2>2, <3>1 DEF Inv, SharedIsLive
    <3>3. t # s
      <4> SUFFICES ASSUME t = s PROVE FALSE
        OBVIOUS
      <4>1. p = LO_TCP /\ f = shared.tcp
        BY <3>2
      <4>2. shared' = [shared EXCEPT !.tcp = Closed]
        BY <1>1, <4>1 DEF Unshared, LO_UDP, LO_TCP
      <4>3. QED
        BY <1>2, <2>2, <4>2 DEF TypeOK
    <3>4. QED
      BY <1>3, <3>1, <3>2, <3>3
  <2>3. QED
    BY <2>1, <2>2 DEF SharedIsLive
<1>10. QED
  BY <1>5, <1>7, <1>8, <1>9 DEF Inv

(* An accepted stream is stray, whatever call is in progress. *)
LEMMA AcceptPreserves ==
  ASSUME Inv, NEW s \in Servers, Accept(s)
  PROVE  Inv'
<1> DEFINE u == Use(LO_TCP, "accepted")
<1>1. PICK new \in Fds : Lowest(new) /\ fd' = With(new, u) /\ stray' = stray \cup {new}
  BY DEF Accept
<1>2. UNCHANGED <<addr, srv, shared, sent, call>>
  BY DEF Accept
<1>3. TypeOK
  BY DEF Inv, Objects
<1>4. u \in Uses /\ u # None
  BY UsesDiffer DEF Protocols
<1>5. fd[new] = None /\ \A g \in Fds : fd'[g] = IF g = new THEN u ELSE fd[g]
  BY <1>1, <1>3 DEF Lowest, Free, With, TypeOK
<1>6. Sockets' = Sockets /\ Purposes' = Purposes
  BY <1>2 DEF Sockets, Purposes, Making, At
<1>7. Kept(Sockets', Purposes', fd', stray')
  <2> HIDE DEF u
  <2>1. Kept(Sockets, Purposes, fd', stray \cup {new})
    BY <1>4, <1>5, Straying DEF Inv
  <2>2. QED
    BY <1>1, <1>6, <2>1
<1>8. Objects'
  BY <1>1, <1>2, <1>3, <1>4 DEF Inv, Objects, TypeOK, ErrnumTells, With
<1>9. CallFits' /\ SharedIsLive'
  BY <1>2 DEF Inv, CallFits, SharedIsLive, Making, At
<1>10. QED
  BY <1>7, <1>8, <1>9 DEF Inv

-----------------------------------------------------------------------------
(* So every step preserves the invariant, *)
LEMMA StepPreserves == Inv /\ [Next]_vars => Inv'
<1> SUFFICES ASSUME Inv, [Next]_vars PROVE Inv'
  OBVIOUS
<1>1. CASE \E a \in Addresses, p \in Protocols : AddressNew(a, p)
  BY <1>1, AddressNewPreserves
<1>2. CASE \E a \in Addresses : AddressFree(a)
  BY <1>2, AddressFreePreserves
<1>3. CASE \E a \in Addresses : BadArguments(a) \/ Unsendable(a)
  BY <1>3, CallsAre, FailuresPreserve DEF BadArguments, Unsendable, Inv, Objects
<1>4. CASE \E a \in Addresses, from \in Servers \cup {None} : Send(a, from)
  BY <1>4, SendPreserves
<1>5. CASE \E a \in Addresses : CreateSocket(a)
  BY <1>5, CreateSocketPreserves
<1>6. CASE \E a \in Addresses : SocketFails(a)
  BY <1>6, CallsAre, FailuresPreserve DEF SocketFails, Inv, Objects, CallFits
<1>7. CASE \E a \in Addresses : Connects(a)
  <2>1. PICK a \in Addresses : Connects(a)
    BY <1>7
  <2>2. addr[a] # None /\ call \in Sends /\ call.of = a /\ \A s \in Servers : ~ Making(s)
    BY <2>1, CallsAre DEF Connects, Inv, Objects, CallFits, At
  <2>3. call' \in Sends /\ call'.of = a /\ call'.at # "socket"
    BY <2>1, <2>2 DEF Connects, Sends
  <2>4. QED
    BY <2>1, <2>2, <2>3, CallsPreserve DEF Connects
<1>8. CASE \E a \in Addresses : ConnectFails(a)
  BY <1>8, ConnectFailsPreserves
<1>9. CASE \E a \in Addresses : Transmit(a)
  BY <1>9, TransmitPreserves
<1>10. CASE \E s \in Servers, p \in Protocols : ServerNew(s, p)
  BY <1>10, ServerNewPreserves
<1>11. CASE \E s \in Servers : OpenServer(s)
  BY <1>11, OpenServerPreserves
<1>12. CASE \E s \in Servers : CannotOpen(s)
  BY <1>12, CannotOpenPreserves
<1>13. CASE \E s \in Servers : Bound(s)
  BY <1>13, BoundPreserves
<1>14. CASE \E s \in Servers : PortInUse(s)
  BY <1>14, PortInUsePreserves
<1>15. CASE \E s \in Servers : BindFails(s)
  BY <1>15, BindFailsPreserves
<1>16. CASE \E s \in Servers : ServerFree(s)
  BY <1>16, ServerFreePreserves
<1>17. CASE \E s \in Servers : Accept(s)
  BY <1>17, AcceptPreserves
<1>18. CASE UNCHANGED vars
  <2>1. Sockets' = Sockets /\ Purposes' = Purposes
    BY <1>18 DEF vars, Sockets, Purposes, Making, At
  <2>2. QED
    BY <1>18, <2>1 DEF vars, Inv, Objects, TypeOK, ErrnumTells, CallFits, SharedIsLive, Making, At
<1>19. QED
  BY <1>1, <1>2, <1>3, <1>4, <1>5, <1>6, <1>7, <1>8, <1>9, <1>10, <1>11, <1>12, <1>13, <1>14,
     <1>15, <1>16, <1>17, <1>18 DEF Next

(* and it holds always. *)
LEMMA Invariance == Spec => []Inv
BY InitInv, StepPreserves, PTL DEF Spec

-----------------------------------------------------------------------------
(* The owners of the properties are the holders that hold something. *)
LEMMA OwnersAre ==
  ASSUME Inv
  PROVE  /\ \A o \in Owners : o \in Keys /\ Sockets[o] # Closed
                              /\ SocketOf(o) = Sockets[o] /\ UseOf(o) = Purposes[o]
         /\ \A o \in Keys : Sockets[o] # Closed => o \in Owners
<1>1. TypeOK
  BY DEF Inv, Objects
<1>2. \A s \in Servers : srv[s] # None => srv[s].socket # Closed
  BY <1>1, ObjectsAre DEF Closed
<1>3. ASSUME NEW a \in Addresses
      PROVE  /\ <<"address", a>> \in Owners <=> Sockets[<<"address", a>>] # Closed
             /\ <<"address", a>> \in Owners =>
                  /\ SocketOf(<<"address", a>>) = Sockets[<<"address", a>>]
                  /\ UseOf(<<"address", a>>) = Purposes[<<"address", a>>]
  BY AddressHolds DEF Owners, SocketOf, UseOf, HolderOf
<1>4. ASSUME NEW s \in Servers
      PROVE  /\ <<"server", s>> \in Owners <=> Sockets[<<"server", s>>] # Closed
             /\ <<"server", s>> \in Owners =>
                  /\ SocketOf(<<"server", s>>) = Sockets[<<"server", s>>]
                  /\ UseOf(<<"server", s>>) = Purposes[<<"server", s>>]
  BY <1>2, ServerHolds DEF Owners, SocketOf, UseOf, HolderOf
<1>5. ASSUME NEW s \in Servers
      PROVE  /\ <<"making", s>> \in Owners <=> Sockets[<<"making", s>>] # Closed
             /\ <<"making", s>> \in Owners =>
                  /\ SocketOf(<<"making", s>>) = Sockets[<<"making", s>>]
                  /\ UseOf(<<"making", s>>) = Purposes[<<"making", s>>]
  BY MakingHolds DEF Owners, SocketOf, UseOf, HolderOf, Making
<1>6. \A o \in Owners : o \in Keys
  BY DEF Owners, Keys
<1>7. QED
  BY <1>3, <1>4, <1>5, <1>6, KeysAre

(* The types, and "the error number from the last failed lo_send" of       *)
(* lo_address_errno: it tells a send that failed from one that did not.    *)
THEOREM ErrnumIsOfTheLastSend == Spec => []TypeOK
<1>1. Inv => TypeOK
  BY DEF Inv, Objects
<1>2. QED
  BY <1>1, Invariance, PTL

(* No two addresses or servers, made or in the making, ever hold one       *)
(* descriptor, and none holds a descriptor that was closed: a TCP          *)
(* address's second close, a freed server's and that after a failed        *)
(* connect or bind never hit another object's socket.                      *)
THEOREM SocketsAreOwned == Spec => []NoDescriptorTwice
<1>1. Inv => NoDescriptorTwice
  BY OwnersAre DEF Inv, Kept, NoDescriptorTwice
<1>2. QED
  BY <1>1, Invariance, PTL

(* The socket that all UDP addresses send through is a running server's.   *)
THEOREM SharedSocketIsLive == Spec => []SharedIsLive
<1>1. Inv => SharedIsLive
  BY DEF Inv
<1>2. QED
  BY <1>1, Invariance, PTL

(* Nothing is left open, at any step of any call, but what an object       *)
(* holds, the sockets of attempts that found their port in use, and        *)
(* accepted streams.                                                       *)
THEOREM OnlyKnownLeaks == Spec => []NothingElseOpen
<1>1. Inv => NothingElseOpen
  BY OwnersAre DEF Inv, Kept, NothingElseOpen, Closed
<1>2. QED
  BY <1>1, Invariance, PTL
=============================================================================
