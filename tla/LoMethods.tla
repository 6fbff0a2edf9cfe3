----------------------------- MODULE LoMethods -----------------------------
(***************************************************************************)
(* What lo.h says of a server's methods: they are kept in the order in     *)
(* which they were added, and a deletion removes those, and only those,    *)
(* with the given path, or a path the given pattern stands for, and the    *)
(* given types.                                                            *)
(***************************************************************************)
EXTENDS Sequences, LoPattern

CONSTANTS
  NoPath,     \* NULL as a path: the generic handler
  Paths,      \* paths methods are added for
  Specs,      \* typespecs methods are added for
  Deletions   \* paths methods are deleted for, patterns among them

VARIABLE methods   \* the methods, oldest first

Method == [path : Paths, types : Specs]

Given(path, m) == IF NoPath \in {path, m.path} THEN path = m.path ELSE StandsFor(path, m.path)

MethodsInit == methods = << >>

AddNewest(m) == methods' = Append(methods, m)

\* what is left of the first k methods when those in Gone are removed
Without(Gone) ==
  LET left[k \in 0..Len(methods)] ==
        IF k = 0 THEN << >>
        ELSE IF methods[k] \in Gone THEN left[k - 1] ELSE Append(left[k - 1], methods[k])
  IN  left[Len(methods)]

RemoveAll(path, types) ==
  methods' = Without({m \in Method : Given(path, m) /\ m.types = types})

MethodsNext ==
  \/ \E m \in Method : AddNewest(m)
  \/ \E path \in Deletions, types \in Specs : RemoveAll(path, types)

MethodTable == MethodsInit /\ [][MethodsNext]_methods
=============================================================================
