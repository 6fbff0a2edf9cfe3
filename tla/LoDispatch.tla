----------------------------- MODULE LoDispatch -----------------------------
(***************************************************************************)
(* The methods of a liblo server (server.c): the list they are kept in,    *)
(* and dispatch_method, which hands a message to the methods that match    *)
(* it.  A handler may add and delete methods while the list is walked, but *)
(* does not delete the method it was called for.                           *)
(*                                                                         *)
(* Methods are heap cells 1..MaxMethods that are not used again.  Paths    *)
(* and types are sequences of characters; of the arguments only whether    *)
(* there is an array of them is kept.                                      *)
(***************************************************************************)
EXTENDS Integers, FiniteSets, SequencesExt, LoPattern

CONSTANTS
  NoMethod,   \* the record of a method that is not there
  NoPath, Paths, Specs, Deletions,   \* as in LoMethods
  AnyTypes,   \* NULL as a typespec: all types
  Messages,   \* messages that may arrive: [path, types]
  MaxMethods  \* methods that may be added in all

Null == 0

Character == {Alphabet[i] : i \in DOMAIN Alphabet}

ASSUME DispatchAssumption ==
  /\ MaxMethods \in Nat
  /\ \A p \in Paths \ {NoPath} : p \in Seq(Character) /\ ~ IsPattern(p)
  /\ \A m \in Messages : m.path \in Seq(Character)
  /\ NoPath \notin Seq(Character) /\ NoMethod \notin [path : Paths, types : Specs]

VARIABLES
  first,    \* s->first
  next,     \* the next pointer of every method
  method,   \* the path and types of every method, NoMethod when not added or freed
  added,    \* methods added so far
  pc,       \* "idle", "walk", "handler", "enumerate", "crashed"
  msg,      \* the message being dispatched
  it,       \* the method the walk is at
  ret,      \* the last result of a handler
  argv,     \* is argv an array (or NULL)?
  calls,    \* the calls of handlers for msg: [method, argv, ret], ret 3 until it returns
  reply     \* the names replied to msg, if it was taken for an enumeration

listVars == <<first, next, method, added>>
walkVars == <<it, ret, argv, calls, reply>>
vars == <<listVars, pc, msg, walkVars>>

NoReply == <<NoPath>>
NoMessage == [path |-> << >>, types |-> << >>]

Init ==
  /\ first = Null /\ added = 0
  /\ next = [m \in 1..MaxMethods |-> Null]
  /\ method = [m \in 1..MaxMethods |-> NoMethod]
  /\ pc = "idle" /\ msg = NoMessage
  /\ it = Null /\ ret = 1 /\ argv = TRUE /\ calls = << >> /\ reply = NoReply

-----------------------------------------------------------------------------
(* The list. *)

(* The methods from the first on, as the next pointers have them. *)
ListFrom(head, links) ==
  LET after == [m \in 0..MaxMethods |-> IF m = Null THEN Null ELSE links[m]]
      at[k \in 0..MaxMethods] == IF k = 0 THEN head ELSE after[at[k - 1]]
  IN  [i \in 1..Cardinality({k \in 0..MaxMethods : at[k] # Null}) |-> at[i - 1]]

List == ListFrom(first, next)

(* Methods are added and deleted before and between messages, and by a      *)
(* handler.                                                                 *)
Caller == pc \in {"idle", "handler"}

(* lo_server_add_method; a path with a pattern's character is refused.      *)
Add(path, types) ==
  /\ Caller /\ added < MaxMethods
  /\ added' = added + 1
  /\ method' = [method EXCEPT ![added'] = [path |-> path, types |-> types]]
  /\ IF first = Null
     THEN first' = added' /\ UNCHANGED next
     ELSE next' = [next EXCEPT ![Last(List)] = added'] /\ UNCHANGED first
  /\ UNCHANGED <<pc, msg, walkVars>>

Deleted(m, path, types) ==
  /\ \/ method[m].path = path
     \/ path # NoPath /\ method[m].path # NoPath /\ IsPattern(path) /\ Match(method[m].path, path)
  /\ method[m].types = types

Unlink_swapped(w, m) ==
  IF m = w.first THEN [w EXCEPT !.first = w.next[m]]
  ELSE [w EXCEPT !.next[m] = w.next[w.prev]]
Unlink_movesOn(w, m) ==
  IF m = w.first THEN [w EXCEPT !.first = w.next[m], !.prev = m]
  ELSE [w EXCEPT !.next[w.prev] = w.next[m], !.prev = m]

(* One method out of the list: prev stays, "take care when removing the     *)
(* head".                                                                   *)
Unlink(w, m) ==
  IF m = w.first THEN [w EXCEPT !.first = w.next[m]]
  ELSE [w EXCEPT !.next[w.prev] = w.next[m]]

(* lo_server_del_method *)
Delete(path, types) ==
  LET list == List
      walked[k \in 0..Len(list)] ==
        IF k = 0 THEN [first |-> first, next |-> next, prev |-> first]
        ELSE IF Deleted(list[k], path, types) THEN Unlink(walked[k - 1], list[k])
        ELSE [walked[k - 1] EXCEPT !.prev = list[k]]
  IN  /\ Caller /\ first # Null
      /\ pc = "handler" => ~ Deleted(it, path, types)
      /\ first' = walked[Len(list)].first /\ next' = walked[Len(list)].next
      /\ method' = [m \in 1..MaxMethods |->
                     IF method[m] # NoMethod /\ Deleted(m, path, types)
                     THEN NoMethod ELSE method[m]]
      /\ UNCHANGED <<added, pc, msg, walkVars>>

-----------------------------------------------------------------------------
(* dispatch_method *)

Receive ==
  /\ pc = "idle"
  /\ msg' \in Messages
  /\ it' = first /\ reply' = NoReply
  /\ pc' = "walk"
  /\ UNCHANGED <<listVars, ret, argv, calls>>

PathTakes(m) ==
  \/ method[m].path \in {NoPath, msg.path}
  \/ method[m].path # NoPath /\ IsPattern(msg.path) /\ Match(method[m].path, msg.path)

SameTypes(m) == method[m].types \in {AnyTypes, msg.types}

Numerical == {"i", "f", "h", "d"}
Textual == {"s", "S"}

(* lo_can_coerce_spec *)
CanCoerce(a, b) ==
  /\ b # AnyTypes /\ Len(a) = Len(b)
  /\ \A i \in DOMAIN a : a[i] = b[i] \/ {a[i], b[i]} \subseteq Numerical
                                    \/ {a[i], b[i]} \subseteq Textual

Takes(m) == PathTakes(m) /\ (SameTypes(m) \/ CanCoerce(msg.types, method[m].types))

Skip ==
  /\ pc = "walk" /\ it # Null /\ ~ Takes(it)
  /\ it' = next[it]
  /\ UNCHANGED <<listVars, pc, msg, ret, argv, calls, reply>>

(* A handler for other types gets coerced arguments in an array of its own. *)
Call ==
  /\ pc = "walk" /\ it # Null /\ Takes(it)
  /\ pc' = "handler"
  /\ calls' = Append(calls, [method |-> it, argv |-> argv \/ ~ SameTypes(it), ret |-> 3])
  /\ UNCHANGED <<listVars, msg, it, ret, argv, reply>>

Breaks(r) == r = 0 /\ ~ IsPattern(msg.path)

(* The handler returns: 0, 1, or anything else (2).  The array made for a   *)
(* coercion is freed, and argv is NULL from here on.                        *)
Return ==
  /\ pc = "handler"
  /\ \E r \in 0..2 :
       /\ ret' = r
       /\ calls' = [calls EXCEPT ![Len(calls)].ret = r]
       /\ IF Breaks(r)
          THEN it' = Null
          ELSE it' = next[it]
  /\ argv' = (argv /\ SameTypes(it))
  /\ pc' = "walk"
  /\ UNCHANGED <<listVars, msg, reply>>

Enumerates == ret = 1 /\ msg.path # << >> /\ Last(msg.path) = "/"

Leave == pc' = "idle" /\ msg' = NoMessage /\ ret' = 1 /\ argv' = TRUE /\ calls' = << >>

EndWalk ==
  /\ pc = "walk" /\ it = Null
  /\ IF Enumerates THEN pc' = "enumerate" /\ UNCHANGED <<msg, ret, argv, calls>> ELSE Leave
  /\ UNCHANGED <<listVars, it, reply>>

(* What follows k characters of a path, up to the next slash. *)
Segment(path, k) == SubSeq(path, k + 1, Find(path, k + 1, {"/"}) - 1)

Under(m, path) == method[m].path # NoPath /\ IsPrefix(path, method[m].path)

NewName_notLast(names, name) == names = << >> \/ Last(names) # name

NewName(names, name) == ~ Contains(names, name)

Names(path) ==
  LET list == List
      names[k \in 0..Len(list)] ==
        IF k = 0 THEN << >>
        ELSE LET name == Segment(method[list[k]].path, Len(path))
                 before == names[k - 1]
             IN  IF Under(list[k], path) /\ NewName(before, name)
                 THEN Append(before, name) ELSE before
  IN  names[Len(list)]

(* A method enumeration call; one with an integer reads argv[0]. *)
Enumerate ==
  /\ pc = "enumerate"
  /\ IF msg.types = <<"i">> /\ ~ argv
     THEN pc' = "crashed" /\ UNCHANGED <<msg, ret, argv, calls, reply>>
     ELSE reply' = Names(msg.path) /\ Leave
  /\ UNCHANGED <<listVars, it>>

-----------------------------------------------------------------------------
AddMethod == \E path \in Paths, types \in Specs : Add(path, types)
DelMethod == \E path \in Deletions, types \in Specs : Delete(path, types)

Dispatch == Receive \/ Skip \/ Call \/ Return \/ EndWalk \/ Enumerate

Next == AddMethod \/ DelMethod \/ Dispatch

Spec == Init /\ [][Next]_vars

-----------------------------------------------------------------------------
Registered == ToSet(List)
Called == {calls[i].method : i \in DOMAIN calls}

(* Types, and that the list has no cycle and nothing that was never added. *)
TypeOK ==
  /\ added \in 0..MaxMethods
  /\ first \in 0..added /\ next \in [1..MaxMethods -> 0..added]
  /\ \A m \in 1..MaxMethods : next[m] # Null => next[m] > m
  /\ method \in [1..MaxMethods -> [path : Paths, types : Specs] \cup {NoMethod}]
  /\ \A m \in 1..MaxMethods : method[m] # NoMethod => m <= added
  /\ pc \in {"idle", "walk", "handler", "enumerate", "crashed"}
  /\ msg \in Messages \cup {NoMessage} /\ it \in 0..added
  /\ ret \in 0..2 /\ argv \in BOOLEAN
  /\ calls \in Seq([method : 1..added, argv : BOOLEAN, ret : 0..3])

Kept == LET list == List IN [i \in DOMAIN list |-> method[list[i]]]

Table == INSTANCE LoMethods WITH methods <- Kept

(* The pointers of the list implement the table that lo.h describes:        *)
(* whatever is deleted, at the head, in a row, by path or by pattern, the   *)
(* others stay reachable and in order, and none that was freed is.          *)
ImplementsMethodTable == Table!MethodTable

(* Does the method want the message, by what the pattern of its path means? *)
Wants(m) ==
  /\ method[m].path = NoPath \/ StandsFor(msg.path, method[m].path)
  /\ SameTypes(m) \/ CanCoerce(msg.types, method[m].types)

(* No method is called but those that want the message, in the order they   *)
(* were added, each once, and none after it was deleted; a message with a   *)
(* plain path goes no further than the first that takes it, and any other   *)
(* reaches all of them before the walk ends.                                *)
EachMatchOnceInOrder ==
  /\ pc = "handler" => it \in Registered /\ Wants(it)
  /\ \A i, j \in DOMAIN calls : i < j => calls[i].method < calls[j].method
  /\ \A i \in 1..Len(calls) - 1 : calls[i].ret = 0 => IsPattern(msg.path)
  /\ pc = "walk" /\ it = Null =>
       LET taken == calls # << >> /\ Last(calls).ret = 0 /\ ~ IsPattern(msg.path)
       IN  \A m \in Registered :
             Wants(m) => m \in Called \/ (taken /\ m > Last(calls).method)

(* A reply is sent only when the path is plain and no handler took it, or   *)
(* the last one did not; it has the next segment of every path below the    *)
(* message's, each once, and nothing else.                                  *)
RepliesAreTruthful ==
  [][reply' # reply /\ reply' # NoReply =>
       LET p == msg.path IN
       /\ \A i \in DOMAIN calls : calls[i].ret = 0 => IsPattern(p) /\ i < Len(calls)
       /\ \A i, j \in DOMAIN reply' : reply'[i] = reply'[j] => i = j
       /\ \A m \in Registered : Under(m, p) =>
            \E i \in DOMAIN reply' : IsPrefix(p \o reply'[i], method[m].path)
       /\ \A i \in DOMAIN reply' :
            \E m \in Registered : Under(m, p) /\ Segment(method[m].path, Len(p)) = reply'[i]]_vars

(* "argv An array of lo_arg types containing the values, e.g. if the first  *)
(* argument of the incoming message is of type 'f' then the vlaue will be   *)
(* found in argv[0]->f."                                                    *)
ArgvHasTheValues == \A i \in DOMAIN calls : calls[i].argv
=============================================================================
