-------------------------------- MODULE Query --------------------------------
(***************************************************************************)
(* Traversals over a World (query.go): each picks the smallest required    *)
(* store as its driver and calls back once per matching entity.  User code *)
(* runs only inside a callback, so the state is a stack of traversals,     *)
(* each suspended in the callback for the entity at driver position pos;   *)
(* a callback may start nested traversals, replace components, build new   *)
(* queries, stop, or panic (a structural call inside a traversal does).    *)
(***************************************************************************)
EXTENDS World

CONSTANT Views  \* the queries the program constructs

\* A query: its required types, and its With and Without filters.
ASSUME QueryAssumption ==
  \A v \in Views :
    /\ v.required \in Seq(Types) /\ v.required # <<>>
    /\ v.with \in Seq(Types)
    /\ v.without \subseteq Types

VARIABLE frames  \* the traversals in progress, innermost last

queryVars == <<worldVars, frames>>

\* visited is history: the entities called back so far, the current one last.
\* borrowed gives the dense positions whose addresses the callback was handed.
Frame == [view : Views, driver : Types, pos : Nat \ {0},
          visited : Seq(Handle), borrowed : UNION {[ts -> Nat] : ts \in SUBSET Types}]

Size(t) == Len(store[t].entities)

\* The first of the smallest stores among the required types and, after them,
\* the With filters: each replaces the driver only when strictly smaller.
Driver(v) ==
  LET cands == v.required \o v.with
      best  == CHOOSE i \in DOMAIN cands :
                 /\ \A j \in DOMAIN cands : Size(cands[i]) <= Size(cands[j])
                 /\ \A j \in 1..(i - 1) : Size(cands[i]) < Size(cands[j])
  IN  cands[best]

\* Mutant: Without filters are ignored.
MatchesIgnoringWithout(v, e) ==
  /\ \A t \in ToSet(v.required) : Holds(store[t], e)
  /\ \A t \in ToSet(v.with) : t \in ensured /\ Holds(store[t], e)

Matches(v, e) ==
  /\ \A t \in ToSet(v.required) : Holds(store[t], e)
  /\ \A t \in ToSet(v.with) : t \in ensured /\ Holds(store[t], e)
  /\ \A t \in v.without : ~(t \in ensured /\ Holds(store[t], e))

\* Mutant: the loop advances by two.
MatchesSkipping(v, driver, p) ==
  {i \in (p + 2)..Size(driver) : Matches(v, store[driver].entities[i])}

\* Driver positions after p that the loop will call back.
MatchesAfter(v, driver, p) ==
  {i \in (p + 1)..Size(driver) : Matches(v, store[driver].entities[i])}

\* A With filter on a type that never got a store ends the query before the
\* depth is counted.
Runnable(v) == ToSet(v.with) \subseteq ensured

\* The frame suspended in the callback for driver position i.
At(f, i) ==
  LET e == store[f.driver].entities[i]
  IN  [f EXCEPT !.pos = i, !.visited = Append(@, e),
                !.borrowed = [t \in ToSet(f.view.required) |-> Index(store[t], e)]]

QueryInit == WorldInit /\ frames = <<>>

\* Query1..Query4: the constructor creates the required stores.
Construct(v) ==
  /\ EnsureStorage(ToSet(v.required))
  /\ UNCHANGED frames

\* Each, up to its first callback.  One that matches nothing leaves the depth
\* as it found it and is a stuttering step.
Begin(v) ==
  LET d == Driver(v)
      S == MatchesAfter(v, d, 0)
  IN  /\ ToSet(v.required) \subseteq ensured
      /\ Runnable(v)
      /\ S # {}
      /\ EnterQuery
      /\ frames' = Append(frames,
           At([view |-> v, driver |-> d, pos |-> 1, visited |-> <<>>, borrowed |-> <<>>],
              Min(S)))

Rest(f) == MatchesAfter(f.view, f.driver, f.pos)

\* The callback returns true and there is another match.
Continue ==
  /\ frames # <<>>
  /\ Rest(Last(frames)) # {}
  /\ frames' = Append(Front(frames), At(Last(frames), Min(Rest(Last(frames)))))
  /\ UNCHANGED worldVars

\* The callback returns true and the driver is exhausted.
Complete ==
  /\ frames # <<>>
  /\ Rest(Last(frames)) = {}
  /\ frames' = Front(frames)
  /\ LeaveQuery

\* The callback returns false.
Stop ==
  /\ frames # <<>>
  /\ frames' = Front(frames)
  /\ LeaveQuery

\* A callback panics (ErrStructuralMutation among others) and the panic is
\* recovered k traversals further out; every one it crosses runs its deferred
\* decrement.
Unwind(k) ==
  /\ k <= Len(frames)
  /\ frames' = SubSeq(frames, 1, Len(frames) - k)
  /\ queryDepth' = queryDepth - k
  /\ UNCHANGED <<entityVars, storeVars>>

\* Component and entity operations, called between traversals or in a callback.
Mutate ==
  /\ \/ NewEntity
     \/ \E e \in Inputs : Destroy(e)
     \/ \E e \in Inputs, t \in Types, v \in Values : Set(e, t, v)
     \/ \E e \in Inputs, t \in Types : RemoveComponent(e, t)
  /\ UNCHANGED frames

QueryNext ==
  \/ Mutate
  \/ \E v \in Views : Construct(v)
  \/ \E v \in Views : Begin(v)
  \/ Continue
  \/ Complete
  \/ Stop
  \/ \E k \in 1..MaxDepth : Unwind(k)

QuerySpec == QueryInit /\ [][QueryNext]_queryVars

-----------------------------------------------------------------------------
(* Properties *)

\* The entities that satisfy v, read off the dense sides and not off the
\* traversal: what a full scan of the live entities would select.
Selected(v) ==
  {e \in Live :
     /\ \A t \in ToSet(v.required) \cup ToSet(v.with) : e \in ToSet(store[t].entities)
     /\ \A t \in v.without : e \notin ToSet(store[t].entities)}

\* Whatever driver is chosen, and also when a query returns early on a With
\* type without a store, a traversal started now would reach every selected
\* entity and no other (each, matches).
DriverReachesSelected ==
  \A v \in Views :
    ToSet(v.required) \subseteq ensured =>
      Selected(v) = IF Runnable(v)
                    THEN {store[Driver(v)].entities[i] : i \in MatchesAfter(v, Driver(v), 0)}
                    ELSE {}

\* A traversal that runs to its end has called back each selected entity
\* exactly once, whatever its callbacks, nested traversals and panics
\* recovered inside them did meanwhile.
CompleteVisitsEachOnce ==
  [][Complete => LET f == Last(frames)
                 IN  IsInjective(f.visited) /\ ToSet(f.visited) = Selected(f.view)]_queryVars

\* The component pointers handed to every suspended callback, outer ones
\* included, still address that callback's entity (View.Each's borrow).
BorrowsValid ==
  \A n \in DOMAIN frames :
    LET f == frames[n]
    IN  \A t \in DOMAIN f.borrowed :
          /\ f.borrowed[t] \in DOMAIN store[t].entities
          /\ store[t].entities[f.borrowed[t]] = Last(f.visited)

=============================================================================
