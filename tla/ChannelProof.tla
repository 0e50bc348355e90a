---------------------------- MODULE ChannelProof ----------------------------
(***************************************************************************)
(* That the values of a Channel reach their getters, one each and in       *)
(* order, and that none is lost when close comes between, for any finite   *)
(* set of users.                                                           *)
(***************************************************************************)
EXTENDS Channel, FiniteSetTheorems, TLAPS

Gets == {"get", "try_get"}
Ops == Gets \cup {"none", "set", "close"}
Places == {"out", "waits", "got", "sets", "sets late", "set", "cancels", "closed", "failed"}

CallersOf(ops) == {u \in Users : op[u] \in ops}

HasGetter(g) == \E u \in Users : op[u] \in Gets /\ gen[u] = g
HasSetter(g) == \E u \in Users : op[u] = "set" /\ gen[u] = g

\* No generation is used that there are not as many callers for.
Types ==
    /\ get_generation \in Nat /\ get_generation <= Cardinality(CallersOf(Gets))
    /\ set_generation \in Nat /\ set_generation <= Cardinality(CallersOf({"set"}))
    /\ buffer_map \subseteq Generations /\ deletable = buffer_map
    /\ value_set \subseteq Generations
    /\ promise \in [Generations -> Users \cup {nothing, cancelled}]
    /\ op \in [Users -> Ops] /\ upc \in [Users -> Places] /\ gen \in [Users -> Nat]

\* What a user's place says of it.
UsersKnow == \A u \in Users :
    /\ op[u] = "none" => upc[u] = "out" /\ gen[u] = 0
    /\ upc[u] \in {"sets", "sets late", "set"} => op[u] = "set" /\ gen[u] \in Generations
    /\ upc[u] = "cancels" => closed
    /\ op[u] \in Gets => gen[u] <= get_generation
    /\ op[u] = "set" => gen[u] <= set_generation
    /\ op[u] = "set" /\ gen[u] # 0 => upc[u] \in {"sets", "set"} \/ overtaken
    /\ upc[u] = "set" => gen[u] \in value_set

Distinct == \A u, v \in Users :
    /\ gen[u] = gen[v] /\ gen[u] # 0
    /\ (op[u] \in Gets /\ op[v] \in Gets) \/ (op[u] = "set" /\ op[v] = "set")
    => u = v

\* An entry is there while one of the two has come, and nobody cancelled it.
Entries == \A g \in Generations :
    /\ g \in buffer_map => HasGetter(g) \/ HasSetter(g)
    /\ g \in buffer_map /\ ~overtaken => ~(HasGetter(g) /\ HasSetter(g))
    /\ ~overtaken /\ HasSetter(g) /\ ~HasGetter(g) => g \in buffer_map
    /\ ~overtaken /\ ~closed /\ HasGetter(g) /\ ~HasSetter(g) => g \in buffer_map

Promises == \A g \in Generations :
    promise[g] \notin {nothing, cancelled} =>
        promise[g] \in Users /\ op[promise[g]] = "set" /\ gen[promise[g]] = g

Kept == \A u \in Users :
    /\ upc[u] \in {"sets", "set"} => HasGetter(gen[u]) \/ gen[u] \in buffer_map
    /\ upc[u] = "set" => promise[gen[u]] = u

IInv == Types /\ UsersKnow /\ Distinct /\ Entries /\ Promises /\ Kept

-----------------------------------------------------------------------------
LEMMA Numbers ==
    ASSUME IsFiniteSet(Users)
    PROVE  Cardinality(Users) \in Nat /\ Generations = {g \in Nat : 1 <= g /\ g <= Cardinality(Users)}
BY FS_CardinalityType DEF Generations

\* One caller more makes room for one generation more.
LEMMA Arrivals ==
    ASSUME IsFiniteSet(Users), Types, NEW u \in Users, NEW o, NEW ops,
           Calls(u, o), "none" \notin ops
    PROVE  /\ o \in ops => /\ Cardinality(CallersOf(ops)') = Cardinality(CallersOf(ops)) + 1
                           /\ Cardinality(CallersOf(ops)) + 1 <= Cardinality(Users)
           /\ o \notin ops => CallersOf(ops)' = CallersOf(ops)
<1> DEFINE S == CallersOf(ops)
<1>1. S \in SUBSET Users /\ S' \in SUBSET Users /\ u \notin S
  BY DEF CallersOf, Calls
<1>2. IsFiniteSet(S) /\ IsFiniteSet(S')
  BY <1>1, FS_Subset
<1>3. Cardinality(S) \in Nat /\ Cardinality(S') \in Nat /\ Cardinality(Users) \in Nat
  BY <1>2, FS_CardinalityType
<1>4. CASE o \in ops
  <2>1. S' = S \cup {u}
    BY <1>4 DEF CallersOf, Calls, Types
  <2>2. Cardinality(S') = Cardinality(S) + 1
    BY <2>1, <1>1, <1>2, FS_AddElement
  <2>3. Cardinality(S') <= Cardinality(Users)
    BY <1>1, FS_Subset
  <2> QED
    BY <1>4, <2>2, <2>3
<1>5. CASE o \notin ops
  BY <1>5 DEF CallersOf, Calls, Types
<1> QED
  BY <1>4, <1>5

\* A caller that was given a generation is its getter or its setter.
LEMMA Joins ==
    ASSUME Types, UsersKnow, NEW u \in Users, NEW o, NEW g, Calls(u, o),
           gen'[u] = g, \A v \in Users \ {u} : gen'[v] = gen[v]
    PROVE  \A h \in Generations :
             /\ HasGetter(h)' <=> HasGetter(h) \/ (o \in Gets /\ h = g)
             /\ HasSetter(h)' <=> HasSetter(h) \/ (o = "set" /\ h = g)
BY Zenon DEF Types, UsersKnow, Calls, HasGetter, HasSetter, Gets, Generations

\* A caller that failed is neither.
LEMMA StaysOut ==
    ASSUME IsFiniteSet(Users), Types, UsersKnow, NEW u \in Users, NEW o, Calls(u, o), gen' = gen
    PROVE  \A h \in Generations : (HasGetter(h)' <=> HasGetter(h)) /\ (HasSetter(h)' <=> HasSetter(h))
<1>1. \A h \in Generations : h # 0
  BY Numbers
<1>2. gen[u] = 0 /\ op[u] = "none"
  BY Zenon DEF UsersKnow, Calls
<1>3. \A v \in Users : v # u => op'[v] = op[v]
  BY DEF Types, Calls
<1> QED
  BY <1>1, <1>2, <1>3 DEF HasGetter, HasSetter, Gets

\* Nobody has the generations that come next.
LEMMA NextIsFree ==
    ASSUME Types, UsersKnow
    PROVE  ~HasGetter(get_generation + 1) /\ ~HasSetter(set_generation + 1)
<1>1. get_generation \in Nat /\ set_generation \in Nat /\ gen \in [Users -> Nat]
  BY DEF Types
<1>2. \A u \in Users : /\ op[u] \in Gets => gen[u] <= get_generation
                       /\ op[u] = "set" => gen[u] <= set_generation
  BY Zenon DEF UsersKnow
<1>3. ~HasGetter(get_generation + 1)
  BY <1>1, <1>2 DEF HasGetter
<1>4. ~HasSetter(set_generation + 1)
  BY <1>1, <1>2 DEF HasSetter
<1> QED
  BY <1>3, <1>4

LEMMA ChannelInit == ASSUME IsFiniteSet(Users) PROVE Init => IInv
<1> SUFFICES ASSUME Init PROVE IInv
  OBVIOUS
<1>1. CallersOf(Gets) = {} /\ CallersOf({"set"}) = {}
  BY DEF Init, CallersOf, Gets
<1>2. Types
  BY <1>1, FS_EmptySet DEF Init, Types, Ops, Places
<1>3. UsersKnow /\ Distinct /\ Entries /\ Promises /\ Kept
  BY DEF Init, UsersKnow, Distinct, Entries, Promises, Kept, HasGetter, HasSetter, Gets, nothing
<1> QED
  BY <1>2, <1>3 DEF IInv

\* A call that fails.
LEMMA Failing ==
    ASSUME IsFiniteSet(Users), IInv, NEW u \in Users, NEW o \in {"get", "try_get", "set", "close"},
           Calls(u, o), fails(u), set_generation' = set_generation, closed' = closed, overtaken' = overtaken,
           \/ get_generation' = get_generation
           \/ o \in Gets /\ get_generation' = get_generation + 1
    PROVE  IInv'
<1>0. Types /\ UsersKnow /\ Distinct /\ Entries /\ Promises /\ Kept
  BY DEF IInv
<1>1. \A h \in Generations : (HasGetter(h)' <=> HasGetter(h)) /\ (HasSetter(h)' <=> HasSetter(h))
  BY <1>0, StaysOut DEF fails
<1>2. /\ get_generation \in Nat /\ get_generation' \in Nat /\ get_generation <= get_generation'
      /\ set_generation \in Nat /\ gen \in [Users -> Nat]
  BY <1>0 DEF Types
<1>3. /\ op'[u] = o /\ upc'[u] = "failed" /\ gen'[u] = 0 /\ op[u] = "none"
      /\ \A v \in Users \ {u} : op'[v] = op[v] /\ upc'[v] = upc[v] /\ gen'[v] = gen[v]
  BY <1>0, Zenon DEF Types, UsersKnow, Calls, fails, goto
<1>4. UNCHANGED << buffer_map, deletable, value_set, promise >>
  BY DEF fails, buffer
<1>5. Types'
  <2>1. /\ o \in Gets => Cardinality(CallersOf(Gets)') = Cardinality(CallersOf(Gets)) + 1
        /\ o \notin Gets => CallersOf(Gets)' = CallersOf(Gets)
    BY <1>0, Arrivals, "none" \notin Gets DEF Gets
  <2>2. /\ o \in {"set"} => Cardinality(CallersOf({"set"})') = Cardinality(CallersOf({"set"})) + 1
        /\ o \notin {"set"} => CallersOf({"set"})' = CallersOf({"set"})
    BY <1>0, Arrivals, Zenon
  <2>3. Cardinality(CallersOf(Gets)) \in Nat /\ Cardinality(CallersOf({"set"})) \in Nat
    BY FS_Subset, FS_CardinalityType DEF CallersOf
  <2>4. get_generation' <= Cardinality(CallersOf(Gets)')
    BY <1>0, <1>2, <2>1, <2>3 DEF Types
  <2>5. set_generation' <= Cardinality(CallersOf({"set"})')
    BY <1>0, <1>2, <2>2, <2>3 DEF Types
  <2>6. op' \in [Users -> Ops] /\ upc' \in [Users -> Places]
    BY <1>0, Zenon DEF Types, Calls, fails, goto, Ops, Gets, Places
  <2> QED
    BY <1>0, <1>2, <1>4, <2>4, <2>5, <2>6 DEF Types, fails
<1>6. UsersKnow'
  <2> SUFFICES ASSUME NEW v \in Users PROVE UsersKnow!(v)'
    BY Zenon DEF UsersKnow
  <2>1. UsersKnow!(v)
    BY <1>0, Zenon DEF UsersKnow
  <2>2. CASE v = u
    <3>1. gen'[u] <= get_generation' /\ gen'[u] <= set_generation'
      BY <1>2, <1>3
    <3> QED
      BY <1>3, <2>2, <3>1, Zenon
  <2>3. CASE v # u
    <3>1. op'[v] = op[v] /\ upc'[v] = upc[v] /\ gen'[v] = gen[v] /\ gen[v] \in Nat
      BY <1>2, <1>3, <2>3
    <3>2. op[v] \in Gets => gen[v] <= get_generation
      BY <2>1, Zenon
    <3>3. op[v] \in Gets => gen[v] <= get_generation'
      BY <1>2, <3>1, <3>2
    <3> QED
      BY <1>4, <2>1, <3>1, <3>3, Zenon
  <2> QED
    BY <2>2, <2>3, Zenon
<1>7. Distinct'
  BY <1>0, <1>3 DEF Distinct
<1>8. Entries'
  BY <1>0, <1>1, <1>4 DEF Entries
<1>9. Promises'
  BY <1>0, <1>3, <1>4 DEF Promises
<1>10. Kept'
  BY <1>0, <1>1, <1>3, <1>4, ZenonT(30) DEF Kept, UsersKnow
<1> QED
  BY <1>5, <1>6, <1>7, <1>8, <1>9, <1>10 DEF IInv

\* get or try_get is given the future of the next generation.
LEMMA Receiving ==
    ASSUME IsFiniteSet(Users), IInv, NEW u \in Users, NEW o \in Gets, Calls(u, o),
           get_generation' = get_generation + 1, receives(u, get_generation'),
           set_generation' = set_generation, closed' = closed, overtaken' = overtaken
    PROVE  IInv'
<1> PICK g \in Nat : g = get_generation + 1
  BY DEF IInv, Types
<1>0. Types /\ UsersKnow /\ Distinct /\ Entries /\ Promises /\ Kept
  BY DEF IInv
<1>1. o \notin {"none", "set"} /\ "none" \notin Gets
  BY DEF Gets
<1>2. /\ Cardinality(CallersOf(Gets)') = Cardinality(CallersOf(Gets)) + 1
      /\ Cardinality(CallersOf(Gets)) + 1 <= Cardinality(Users)
      /\ CallersOf({"set"})' = CallersOf({"set"})
      /\ Cardinality(CallersOf(Gets)) \in Nat
  <2>1. Cardinality(CallersOf(Gets)) \in Nat
    BY FS_Subset, FS_CardinalityType DEF CallersOf
  <2>2. CallersOf({"set"})' = CallersOf({"set"})
    BY <1>0, <1>1, Arrivals, ZenonT(30)
  <2> QED
    BY <1>0, <1>1, <2>1, <2>2, Arrivals
<1>3. /\ get_generation \in Nat /\ set_generation \in Nat /\ gen \in [Users -> Nat]
      /\ g <= Cardinality(CallersOf(Gets)')
      /\ g \in Generations
  BY <1>0, <1>2, Numbers DEF Types
<1>4. /\ op'[u] = o /\ upc'[u] = "waits" /\ gen'[u] = g /\ op[u] = "none"
      /\ \A v \in Users \ {u} : op'[v] = op[v] /\ upc'[v] = upc[v] /\ gen'[v] = gen[v]
  BY <1>0 DEF Types, Calls, receives, goto
<1>5. \A h \in Generations : /\ HasGetter(h)' <=> HasGetter(h) \/ h = g
                             /\ HasSetter(h)' <=> HasSetter(h)
  <2>1. \A h \in Generations :
           /\ HasGetter(h)' <=> HasGetter(h) \/ (o \in Gets /\ h = g)
           /\ HasSetter(h)' <=> HasSetter(h) \/ (o = "set" /\ h = g)
    BY <1>0, <1>4, Joins
  <2>2. o \in Gets /\ o # "set"
    BY <1>1
  <2> QED
    BY <2>1, <2>2
<1>6. ~HasGetter(g)
  BY <1>0, NextIsFree
<1>7. /\ value_set' = value_set
      /\ g \in buffer_map => buffer_map' = buffer_map \ {g} /\ promise' = promise
      /\ g \notin buffer_map => /\ buffer_map' = buffer_map \cup {g}
                                /\ promise' = [promise EXCEPT ![g] = nothing]
      /\ deletable' = buffer_map'
  BY <1>0 DEF Types, receives, receive
<1>8. Types'
  <2>1. op' \in [Users -> Ops] /\ upc' \in [Users -> Places] /\ gen' \in [Users -> Nat]
    <3>1. o \in Ops /\ "waits" \in Places
      BY DEF Ops, Places
    <3> QED
      BY <1>0, <1>3, <1>4, <3>1 DEF Types, Calls, receives, goto
  <2>2. buffer_map' \subseteq Generations /\ promise' \in [Generations -> Users \cup {nothing, cancelled}]
    BY <1>0, <1>3, <1>7, ZenonT(30) DEF Types
  <2> QED
    BY <1>0, <1>2, <1>3, <1>7, <2>1, <2>2 DEF Types
<1>9. UsersKnow'
  <2> SUFFICES ASSUME NEW v \in Users PROVE UsersKnow!(v)'
    BY Zenon DEF UsersKnow
  <2>1. UsersKnow!(v)
    BY <1>0, Zenon DEF UsersKnow
  <2>2. CASE v = u
    <3>1. gen'[u] <= get_generation'
      <4>1. gen'[u] = g /\ get_generation' = g
        BY <1>4
      <4> QED
        BY <4>1
    <3> QED
      BY <1>1, <1>4, <2>2, <3>1, Zenon
  <2>3. CASE v # u
    <3>1. op'[v] = op[v] /\ upc'[v] = upc[v] /\ gen'[v] = gen[v] /\ gen[v] \in Nat
      BY <1>3, <1>4, <2>3
    <3>2. op[v] \in Gets => gen[v] <= get_generation
      BY <2>1, Zenon
    <3>3. gen[v] <= get_generation => gen[v] <= get_generation'
      BY <1>3, <3>1
    <3> QED
      BY <1>7, <2>1, <3>1, <3>2, <3>3, ZenonT(30)
  <2> QED
    BY <2>2, <2>3, Zenon
<1>10. Distinct'
  <2>1. \A v \in Users : op[v] \in Gets => gen[v] # g
    BY <1>6 DEF HasGetter
  <2> SUFFICES ASSUME NEW v \in Users, NEW w \in Users PROVE Distinct!(v, w)'
    BY DEF Distinct
  <2>2. Distinct!(v, w)
    BY <1>0 DEF Distinct
  <2>3. CASE v = u
    BY <1>1, <1>4, <2>1, <2>3
  <2>4. CASE w = u
    BY <1>1, <1>4, <2>1, <2>4
  <2>5. CASE v # u /\ w # u
    BY <1>4, <2>2, <2>5
  <2> QED
    BY <2>3, <2>4, <2>5
<1>11. Entries'
  <2> SUFFICES ASSUME NEW h \in Generations PROVE Entries!(h)'
    BY DEF Entries
  <2>1. Entries!(h)
    BY <1>0 DEF Entries
  <2>2. CASE h = g
    BY <1>5, <1>6, <1>7, <2>1, <2>2
  <2>3. CASE h # g
    BY <1>5, <1>7, <2>1, <2>3
  <2> QED
    BY <2>2, <2>3
<1>12. Promises'
  <2> SUFFICES ASSUME NEW h \in Generations, promise'[h] \notin {nothing, cancelled}
               PROVE  Promises!(h)'
    BY DEF Promises
  <2>1. promise'[h] = promise[h]
    BY <1>0, <1>3, <1>7 DEF Types
  <2>2. promise[h] \in Users /\ op[promise[h]] = "set" /\ gen[promise[h]] = h
    BY <1>0, <2>1 DEF Promises
  <2>3. promise[h] # u
    BY <1>4, <2>2
  <2> QED
    BY <1>4, <2>1, <2>2, <2>3
<1>13. Kept'
  <2> SUFFICES ASSUME NEW v \in Users, upc'[v] \in {"sets", "set"} PROVE Kept!(v)'
    BY DEF Kept
  <2>1. v # u /\ upc'[v] = upc[v] /\ gen'[v] = gen[v] /\ gen[v] \in Generations
    BY <1>0, <1>4, ZenonT(30) DEF UsersKnow
  <2>2. Kept!(v)
    BY <1>0 DEF Kept
  <2>3. HasGetter(gen[v])' \/ gen[v] \in buffer_map'
    BY <1>5, <1>7, <2>1, <2>2
  <2>4. upc[v] = "set" => promise'[gen[v]] = v
    BY <1>0, <1>3, <1>6, <1>7, <2>1, <2>2 DEF Types
  <2> QED
    BY <2>1, <2>3, <2>4
<1> QED
  BY <1>8, <1>9, <1>10, <1>11, <1>12, <1>13 DEF IInv

\* set has stored the promise of the next generation.
LEMMA Setting ==
    ASSUME IsFiniteSet(Users), IInv, NEW u \in Users, set(u)
    PROVE  IInv'
<1> PICK g \in Nat : g = set_generation + 1
  BY DEF IInv, Types
<1>0. Types /\ UsersKnow /\ Distinct /\ Entries /\ Promises /\ Kept
  BY DEF IInv
<1>1. /\ "set" \notin Gets /\ "none" \notin {"set"} /\ "none" \notin Gets
      /\ Calls(u, "set") /\ ~closed /\ receive(g)
      /\ set_generation' = g /\ get_generation' = get_generation
      /\ closed' = closed /\ overtaken' = overtaken
  BY DEF Gets, set
<1>2. /\ Cardinality(CallersOf({"set"})') = Cardinality(CallersOf({"set"})) + 1
      /\ Cardinality(CallersOf({"set"})) + 1 <= Cardinality(Users)
      /\ CallersOf(Gets)' = CallersOf(Gets)
      /\ Cardinality(CallersOf({"set"})) \in Nat
  <2>1. Cardinality(CallersOf({"set"})) \in Nat
    BY FS_Subset, FS_CardinalityType DEF CallersOf
  <2>2. CallersOf(Gets)' = CallersOf(Gets)
    BY <1>0, <1>1, Arrivals
  <2>3. "set" \in {"set"}
    OBVIOUS
  <2> QED
    BY <1>0, <1>1, <2>1, <2>2, <2>3, Arrivals
<1>3. /\ get_generation \in Nat /\ set_generation \in Nat /\ gen \in [Users -> Nat]
      /\ g <= Cardinality(CallersOf({"set"})')
      /\ g \in Generations
  BY <1>0, <1>2, Numbers DEF Types
<1>4. /\ op'[u] = "set" /\ upc'[u] = "sets" /\ gen'[u] = g /\ op[u] = "none"
      /\ \A v \in Users \ {u} : op'[v] = op[v] /\ upc'[v] = upc[v] /\ gen'[v] = gen[v]
  BY <1>0, <1>1 DEF Types, Calls, set, goto
<1>5. \A h \in Generations : /\ HasGetter(h)' <=> HasGetter(h)
                             /\ HasSetter(h)' <=> HasSetter(h) \/ h = g
  BY <1>0, <1>1, <1>4, Joins
<1>6. ~HasSetter(g)
  BY <1>0, NextIsFree
<1>7. /\ value_set' = value_set
      /\ g \in buffer_map => buffer_map' = buffer_map \ {g} /\ promise' = promise
      /\ g \notin buffer_map => /\ buffer_map' = buffer_map \cup {g}
                                /\ promise' = [promise EXCEPT ![g] = nothing]
      /\ deletable' = buffer_map'
  BY <1>0, <1>1, Zenon DEF Types, set, receive
<1>8. Types'
  <2>1. op' \in [Users -> Ops] /\ upc' \in [Users -> Places] /\ gen' \in [Users -> Nat]
    <3>1. "set" \in Ops /\ "sets" \in Places
      BY DEF Ops, Places
    <3> QED
      BY <1>0, <1>1, <3>1 DEF Types, Calls, set, goto
  <2>2. buffer_map' \subseteq Generations /\ promise' \in [Generations -> Users \cup {nothing, cancelled}]
    BY <1>0, <1>3, <1>7, ZenonT(30) DEF Types
  <2> QED
    BY <1>0, <1>1, <1>2, <1>3, <1>7, <2>1, <2>2 DEF Types
<1>9. UsersKnow'
  <2> SUFFICES ASSUME NEW v \in Users PROVE UsersKnow!(v)'
    BY Zenon DEF UsersKnow
  <2>1. UsersKnow!(v)
    BY <1>0, Zenon DEF UsersKnow
  <2>2. CASE v = u
    <3>1. gen'[u] <= set_generation'
      <4>1. gen'[u] = g /\ set_generation' = g
        BY <1>1, <1>4
      <4> QED
        BY <4>1
    <3> QED
      BY <1>1, <1>3, <1>4, <2>2, <3>1, Zenon
  <2>3. CASE v # u
    <3>1. op'[v] = op[v] /\ upc'[v] = upc[v] /\ gen'[v] = gen[v] /\ gen[v] \in Nat
      BY <1>3, <1>4, <2>3
    <3>2. op[v] = "set" => gen[v] <= set_generation
      BY <2>1, ZenonT(30)
    <3>3. gen[v] <= set_generation => gen[v] <= set_generation'
      BY <1>1, <1>3, <3>1
    <3> QED
      BY <1>1, <1>7, <2>1, <3>1, <3>2, <3>3, ZenonT(30)
  <2> QED
    BY <2>2, <2>3, Zenon
<1>10. Distinct'
  <2>1. \A v \in Users : op[v] = "set" => gen[v] # g
    BY <1>6 DEF HasSetter
  <2> SUFFICES ASSUME NEW v \in Users, NEW w \in Users PROVE Distinct!(v, w)'
    BY DEF Distinct
  <2>2. Distinct!(v, w)
    BY <1>0 DEF Distinct
  <2>3. CASE v = u
    BY <1>1, <1>4, <2>1, <2>3
  <2>4. CASE w = u
    BY <1>1, <1>4, <2>1, <2>4
  <2>5. CASE v # u /\ w # u
    BY <1>4, <2>2, <2>5
  <2> QED
    BY <2>3, <2>4, <2>5
<1>11. Entries'
  <2> SUFFICES ASSUME NEW h \in Generations PROVE Entries!(h)'
    BY DEF Entries
  <2>1. Entries!(h)
    BY <1>0 DEF Entries
  <2>2. CASE h = g
    BY <1>1, <1>5, <1>6, <1>7, <2>1, <2>2
  <2>3. CASE h # g
    BY <1>1, <1>5, <1>7, <2>1, <2>3
  <2> QED
    BY <2>2, <2>3
<1>12. Promises'
  <2> SUFFICES ASSUME NEW h \in Generations, promise'[h] \notin {nothing, cancelled}
               PROVE  Promises!(h)'
    BY DEF Promises
  <2>1. promise'[h] = promise[h]
    BY <1>0, <1>3, <1>7 DEF Types
  <2>2. promise[h] \in Users /\ op[promise[h]] = "set" /\ gen[promise[h]] = h
    BY <1>0, <2>1 DEF Promises
  <2>3. promise[h] # u
    BY <1>4, <2>2
  <2> QED
    BY <1>4, <2>1, <2>2, <2>3
<1>13. Kept'
  <2> SUFFICES ASSUME NEW v \in Users, upc'[v] \in {"sets", "set"} PROVE Kept!(v)'
    BY DEF Kept
  <2>1. CASE v = u
    <3>1. HasGetter(g)' \/ g \in buffer_map'
      BY <1>0, <1>3, <1>5, <1>6, <1>7 DEF Entries
    <3> QED
      BY <1>4, <2>1, <3>1
  <2>2. CASE v # u
    <3>1. upc'[v] = upc[v] /\ gen'[v] = gen[v] /\ gen[v] \in Generations /\ op[v] = "set"
      BY <1>0, <1>4, <2>2, ZenonT(30) DEF UsersKnow
    <3>2. Kept!(v) /\ gen[v] # g
      BY <1>0, <1>6, <3>1 DEF Kept, HasSetter
    <3>3. HasGetter(gen[v])' \/ gen[v] \in buffer_map'
      BY <1>5, <1>7, <2>2, <3>1, <3>2
    <3>4. upc[v] = "set" => promise'[gen[v]] = v
      BY <1>0, <1>3, <1>7, <3>1, <3>2 DEF Types
    <3> QED
      BY <3>1, <3>3, <3>4
  <2> QED
    BY <2>1, <2>2
<1> QED
  BY <1>8, <1>9, <1>10, <1>11, <1>12, <1>13 DEF IInv

\* The channel is closed; what waits is cancelled later.
LEMMA Closing == ASSUME IsFiniteSet(Users), IInv, NEW u \in Users, close(u) PROVE IInv'
<1>0. Types /\ UsersKnow /\ Distinct /\ Entries /\ Promises /\ Kept
  BY DEF IInv
<1>1. /\ Calls(u, "close") /\ closed' /\ overtaken' = overtaken /\ gen' = gen
      /\ UNCHANGED << get_generation, set_generation >>
      /\ UNCHANGED << buffer_map, deletable, value_set, promise >>
  BY DEF close, buffer
<1>2. \A h \in Generations : (HasGetter(h)' <=> HasGetter(h)) /\ (HasSetter(h)' <=> HasSetter(h))
  BY <1>0, <1>1, StaysOut
<1>3. /\ op'[u] = "close" /\ upc'[u] \in {"closed", "cancels"} /\ op[u] = "none"
      /\ \A v \in Users \ {u} : op'[v] = op[v] /\ upc'[v] = upc[v]
      /\ "close" \notin Gets /\ "none" \notin Gets
  BY <1>0 DEF Types, Calls, close, goto, Gets
<1>4. Types'
  <2>1. CallersOf(Gets)' = CallersOf(Gets) /\ CallersOf({"set"})' = CallersOf({"set"})
    BY <1>0, <1>1, <1>3, Arrivals
  <2>2. op' \in [Users -> Ops] /\ upc' \in [Users -> Places]
    BY <1>0, Zenon DEF Types, Calls, close, goto, Ops, Places
  <2> QED
    BY <1>0, <1>1, <2>1, <2>2 DEF Types
<1>5. UsersKnow'
  BY <1>0, <1>1, <1>3, ZenonT(30) DEF UsersKnow
<1>6. Distinct'
  <2> SUFFICES ASSUME NEW v \in Users, NEW w \in Users PROVE Distinct!(v, w)'
    BY DEF Distinct
  <2>1. Distinct!(v, w) /\ gen'[v] = gen[v] /\ gen'[w] = gen[w]
    BY <1>0, <1>1 DEF Distinct
  <2>2. CASE v = u \/ w = u
    BY <1>3, <2>2
  <2>3. CASE v # u /\ w # u
    BY <1>3, <2>1, <2>3
  <2> QED
    BY <2>2, <2>3
<1>7. Entries'
  BY <1>0, <1>1, <1>2 DEF Entries
<1>8. Promises'
  BY <1>0, <1>1, <1>3 DEF Promises
<1>9. Kept'
  BY <1>0, <1>1, <1>2, <1>3, ZenonT(30) DEF Kept, UsersKnow
<1> QED
  BY <1>4, <1>5, <1>6, <1>7, <1>8, <1>9 DEF IInv

\* The value of a promise is set.
LEMMA ValueSet == ASSUME IInv, NEW u \in Users, set_value(u) PROVE IInv'
<1>0. Types /\ UsersKnow /\ Distinct /\ Entries /\ Promises /\ Kept
  BY DEF IInv
<1>1. /\ UNCHANGED << get_generation, set_generation, buffer_map, deletable >>
      /\ closed' = closed /\ overtaken' = overtaken /\ op' = op /\ gen' = gen
      /\ upc[u] = "sets" /\ op[u] = "set" /\ gen[u] \in Generations
  BY <1>0, Zenon DEF set_value, UsersKnow
<1>2. /\ promise' = [promise EXCEPT ![gen[u]] = u] /\ value_set' = value_set \cup {gen[u]}
      /\ upc'[u] = "set" /\ \A v \in Users \ {u} : upc'[v] = upc[v]
      /\ upc' \in [Users -> Places]
  BY <1>0, ZenonT(30) DEF set_value, goto, Types, Places
<1>3. \A h : (HasGetter(h)' <=> HasGetter(h)) /\ (HasSetter(h)' <=> HasSetter(h))
  BY <1>1 DEF HasGetter, HasSetter
<1>4. Types'
  BY <1>0, <1>1, <1>2 DEF Types, CallersOf
<1>5. UsersKnow'
  BY <1>0, <1>1, <1>2, ZenonT(30) DEF UsersKnow
<1>6. Distinct'
  BY <1>0, <1>1 DEF Distinct
<1>7. Entries'
  BY <1>0, <1>1, <1>3 DEF Entries
<1>8. Promises'
  BY <1>0, <1>1, <1>2 DEF Promises, Types
<1>9. Kept'
  <2> SUFFICES ASSUME NEW v \in Users, upc'[v] \in {"sets", "set"} PROVE Kept!(v)'
    BY DEF Kept
  <2>1. HasGetter(gen[v]) \/ gen[v] \in buffer_map
    BY <1>0, <1>1, <1>2 DEF Kept
  <2>2. upc'[v] = "set" => promise'[gen[v]] = v
    <3>1. CASE v = u
      BY <1>0, <1>1, <1>2, <3>1 DEF Types
    <3>2. CASE v # u /\ upc'[v] = "set"
      <4>1. op[v] = "set" /\ gen[v] \in Generations /\ promise[gen[v]] = v
        BY <1>0, <1>2, <3>2, Zenon DEF UsersKnow, Kept
      <4>2. 0 \notin Generations
        BY DEF Generations
      <4>3. gen[v] # gen[u]
        BY <1>0, <1>1, <3>2, <4>1, <4>2 DEF Distinct
      <4> QED
        BY <1>0, <1>2, <4>1, <4>3 DEF Types
    <3> QED
      BY <3>1, <3>2
  <2> QED
    BY <1>1, <1>3, <2>1, <2>2
<1> QED
  BY <1>4, <1>5, <1>6, <1>7, <1>8, <1>9 DEF IInv

\* A late set fails, and a future is found ready.
LEMMA GoingOn == ASSUME IInv, NEW u \in Users, set_value_fails(u) \/ got(u) PROVE IInv'
<1>0. Types /\ UsersKnow /\ Distinct /\ Entries /\ Promises /\ Kept
  BY DEF IInv
<1>1. /\ UNCHANGED << get_generation, set_generation, buffer_map, deletable, value_set, promise >>
      /\ closed' = closed /\ overtaken' = overtaken /\ op' = op /\ gen' = gen
      /\ upc[u] \in {"sets late", "waits"} /\ upc'[u] \in {"failed", "got"}
      /\ \A v \in Users \ {u} : upc'[v] = upc[v]
      /\ upc' \in [Users -> Places]
  BY <1>0, ZenonT(30) DEF set_value_fails, got, goto, buffer, Types, Places
<1>2. \A h : (HasGetter(h)' <=> HasGetter(h)) /\ (HasSetter(h)' <=> HasSetter(h))
  BY <1>1, ZenonT(30) DEF HasGetter, HasSetter
<1>3. Types' /\ Distinct'
  BY <1>0, <1>1, ZenonT(30) DEF Types, CallersOf, Distinct
<1>4. UsersKnow'
  BY <1>0, <1>1, ZenonT(30) DEF UsersKnow
<1>5. Entries' /\ Promises'
  BY <1>0, <1>1, <1>2, ZenonT(30) DEF Entries, Promises
<1>6. Kept'
  BY <1>0, <1>1, <1>2, Zenon DEF Kept
<1> QED
  BY <1>3, <1>4, <1>5, <1>6 DEF IInv

\* What waits is cancelled, and with it the sets that have not stored their value.
LEMMA Cancelling == ASSUME IInv, NEW u \in Users, cancel_waiting(u) PROVE IInv'
<1> DEFINE them == buffer_map \ value_set
           late == Late(them)
<1>0. Types /\ UsersKnow /\ Distinct /\ Entries /\ Promises /\ Kept
  BY DEF IInv
<1>1. /\ UNCHANGED << get_generation, set_generation, value_set >>
      /\ closed' = closed /\ closed /\ op' = op /\ gen' = gen /\ upc[u] = "cancels"
      /\ buffer_map' = buffer_map \ them /\ deletable' = deletable \ them
      /\ promise' = [g \in Generations |-> IF g \in them THEN cancelled ELSE promise[g]]
  BY <1>0, ZenonT(30) DEF cancel_waiting, UsersKnow
<1>2. overtaken' <=> overtaken \/ late # {}
  BY ZenonT(30) DEF cancel_waiting
<1>3. /\ upc' \in [Users -> Places] /\ upc'[u] = "closed"
      /\ \A v \in Users \ {u} : upc'[v] = IF v \in late THEN "sets late" ELSE upc[v]
  BY <1>0, ZenonT(30) DEF cancel_waiting, Types, Places
<1>4. \A h : (HasGetter(h)' <=> HasGetter(h)) /\ (HasSetter(h)' <=> HasSetter(h))
  BY <1>1 DEF HasGetter, HasSetter
<1>5. Types'
  BY <1>0, <1>1, <1>3, ZenonT(30) DEF Types, CallersOf
<1>6. UsersKnow'
  <2> SUFFICES ASSUME NEW v \in Users PROVE UsersKnow!(v)'
    BY ZenonT(30) DEF UsersKnow
  <2>1. UsersKnow!(v)
    BY <1>0, Zenon DEF UsersKnow
  <2>2. v \in late => upc[v] = "sets" /\ overtaken'
    BY <1>2, Zenon DEF Late
  <2>3. CASE v = u
    BY <1>1, <1>2, <1>3, <2>1, <2>3, Zenon
  <2>4. CASE v # u
    BY <1>1, <1>2, <1>3, <2>1, <2>2, <2>4, ZenonT(30)
  <2> QED
    BY <2>3, <2>4
<1>7. Distinct'
  BY <1>0, <1>1 DEF Distinct
<1>8. Entries'
  <2> SUFFICES ASSUME NEW g \in Generations PROVE Entries!(g)'
    BY DEF Entries
  <2>1. Entries!(g)
    BY <1>0 DEF Entries
  <2>2. HasSetter(g) /\ ~overtaken' => g \notin them
    <3> SUFFICES ASSUME HasSetter(g), ~overtaken', g \in them PROVE FALSE
      OBVIOUS
    <3>1. PICK s \in Users : op[s] = "set" /\ gen[s] = g
      BY DEF HasSetter
    <3>2. ~overtaken /\ late = {}
      BY <1>2
    <3>3. 0 \notin Generations
      BY DEF Generations
    <3>4. upc[s] \in {"sets", "set"}
      BY <1>0, <3>1, <3>2, <3>3, ZenonT(30) DEF UsersKnow
    <3>5. upc[s] = "set" => g \in value_set
      BY <1>0, <3>1, ZenonT(30) DEF UsersKnow
    <3> QED
      BY <3>1, <3>2, <3>4, <3>5 DEF Late
  <2> QED
    BY <1>1, <1>2, <1>4, <2>1, <2>2
<1>9. Promises'
  BY <1>0, <1>1 DEF Promises
<1>10. Kept'
  <2> SUFFICES ASSUME NEW v \in Users, upc'[v] \in {"sets", "set"} PROVE Kept!(v)'
    BY DEF Kept
  <2>1. v # u /\ v \notin late /\ upc'[v] = upc[v]
    BY <1>3, ZenonT(30)
  <2>2. Kept!(v) /\ gen[v] \in Generations /\ (upc[v] = "set" => gen[v] \in value_set)
    BY <1>0, <2>1, ZenonT(30) DEF Kept, UsersKnow
  <2>3. gen[v] \notin them
    BY <2>1, <2>2 DEF Late
  <2> QED
    BY <1>1, <1>4, <2>1, <2>2, <2>3
<1> QED
  BY <1>5, <1>6, <1>7, <1>8, <1>9, <1>10 DEF IInv

\* A value is set between the test and the exception: what comes before it is cancelled.
LEMMA Throwing ==
    ASSUME IInv, NEW u \in Users, NEW s \in Users, cancel_throws(u, s) PROVE IInv'
<1> DEFINE them == {g \in buffer_map \ value_set : g < gen[s]}
           late == Late(them)
<1>0. Types /\ UsersKnow /\ Distinct /\ Entries /\ Promises /\ Kept
  BY DEF IInv
<1>1. /\ UNCHANGED << get_generation, set_generation >>
      /\ closed' = closed /\ closed /\ op' = op /\ gen' = gen /\ upc[u] = "cancels"
      /\ buffer_map' = buffer_map \ them /\ deletable' = deletable \ them
      /\ value_set' = value_set \cup {gen[s]}
      /\ promise' = [g \in Generations |-> IF g \in them THEN cancelled
                                           ELSE IF g = gen[s] THEN s ELSE promise[g]]
  BY <1>0, ZenonT(30) DEF cancel_throws, UsersKnow
<1>2. overtaken' <=> overtaken \/ late # {}
  BY ZenonT(30) DEF cancel_throws
<1>a. /\ upc[s] = "sets" /\ s # u /\ gen[s] \in buffer_map /\ op[s] = "set"
      /\ gen[s] \in Generations
  BY <1>0, <1>1 DEF cancel_throws, Late, UsersKnow
<1>b. them \subseteq buffer_map \ value_set /\ gen[s] \notin them /\ s \notin late
  <2>1. gen[s] \in Nat
    BY <1>0 DEF Types
  <2>2. ~(gen[s] < gen[s])
    BY <2>1
  <2> QED
    BY <2>2 DEF Late
<1>3. /\ upc' \in [Users -> Places] /\ upc'[u] = "failed" /\ upc'[s] = "set"
      /\ \A v \in Users \ {u, s} : upc'[v] = IF v \in late THEN "sets late" ELSE upc[v]
  <2>1. upc' = [v \in Users |-> IF v = u THEN "failed"
                                 ELSE IF v = s THEN "set"
                                 ELSE IF v \in late THEN "sets late" ELSE upc[v]]
    BY DEF cancel_throws
  <2> HIDE DEF late
  <2>2. upc'[u] = "failed" /\ upc'[s] = "set"
    BY <1>a, <2>1
  <2>3. \A v \in Users \ {u, s} : upc'[v] = IF v \in late THEN "sets late" ELSE upc[v]
    BY <2>1
  <2>4. \A v \in Users : upc'[v] \in Places
    <3> TAKE v \in Users
    <3>1. upc[v] \in Places
      BY <1>0 DEF Types
    <3>2. {"failed", "set", "sets late"} \subseteq Places
      BY DEF Places
    <3> HIDE DEF Places
    <3> QED
      BY <2>2, <2>3, <3>1, <3>2
  <2>5. upc' = [v \in Users |-> upc'[v]]
    BY <2>1
  <2> QED
    BY <2>2, <2>3, <2>4, <2>5, Zenon
<1> HIDE DEF them
<1>4. \A h : (HasGetter(h)' <=> HasGetter(h)) /\ (HasSetter(h)' <=> HasSetter(h))
  BY <1>1 DEF HasGetter, HasSetter
<1>5. Types'
  <2>1. promise' \in [Generations -> Users \cup {nothing, cancelled}]
    BY <1>0, <1>1 DEF Types
  <2>2. value_set' \subseteq Generations /\ buffer_map' \subseteq Generations
        /\ deletable' = buffer_map'
    BY <1>0, <1>1, <1>a DEF Types
  <2> QED
    BY <1>0, <1>1, <1>3, <2>1, <2>2, ZenonT(30) DEF Types, CallersOf
<1>6. UsersKnow'
  <2> SUFFICES ASSUME NEW v \in Users PROVE UsersKnow!(v)'
    BY ZenonT(30) DEF UsersKnow
  <2>1. UsersKnow!(v)
    BY <1>0, Zenon DEF UsersKnow
  <2>2. v \in late => upc[v] = "sets" /\ overtaken'
    BY <1>2, Zenon DEF Late
  <2>3. CASE v = s
    BY <1>1, <1>3, <1>a, <2>1, <2>3, Zenon
  <2>4. CASE v = u
    BY <1>1, <1>2, <1>3, <1>a, <2>1, <2>4, Zenon
  <2>5. CASE v # s /\ v # u
    BY <1>1, <1>2, <1>3, <2>1, <2>2, <2>5, ZenonT(30)
  <2> QED
    BY <2>3, <2>4, <2>5
<1>7. Distinct'
  BY <1>0, <1>1 DEF Distinct
<1>8. Entries'
  <2> SUFFICES ASSUME NEW g \in Generations PROVE Entries!(g)'
    BY DEF Entries
  <2>1. Entries!(g)
    BY <1>0 DEF Entries
  <2>2. HasSetter(g) /\ ~overtaken' => g \notin them
    <3> SUFFICES ASSUME HasSetter(g), ~overtaken', g \in them PROVE FALSE
      OBVIOUS
    <3>1. PICK w \in Users : op[w] = "set" /\ gen[w] = g
      BY DEF HasSetter
    <3>2. ~overtaken /\ late = {}
      BY <1>2
    <3>3. 0 \notin Generations
      BY DEF Generations
    <3>4. upc[w] \in {"sets", "set"}
      BY <1>0, <3>1, <3>2, <3>3, ZenonT(30) DEF UsersKnow
    <3>5. upc[w] = "set" => g \in value_set
      BY <1>0, <3>1, ZenonT(30) DEF UsersKnow
    <3> QED
      BY <1>b, <3>1, <3>2, <3>4, <3>5 DEF Late
  <2> QED
    BY <1>1, <1>2, <1>4, <2>1, <2>2
<1>9. Promises'
  BY <1>0, <1>1, <1>a DEF Promises
<1>10. Kept'
  <2> SUFFICES ASSUME NEW v \in Users, upc'[v] \in {"sets", "set"} PROVE Kept!(v)'
    BY DEF Kept
  <2>1. CASE v = s
    BY <1>1, <1>3, <1>a, <1>b, <2>1
  <2>2. CASE v # s
    <3>1. v # u /\ v \notin late /\ upc'[v] = upc[v]
      BY <1>3, <2>2, ZenonT(30)
    <3>2. Kept!(v) /\ gen[v] \in Generations /\ (upc[v] = "set" => gen[v] \in value_set)
          /\ op[v] = "set"
      BY <1>0, <3>1, ZenonT(30) DEF Kept, UsersKnow
    <3>3. gen[v] \notin them
      BY <1>b, <3>1, <3>2 DEF Late
    <3>4. gen[v] # gen[s]
      <4>1. 0 \notin Generations
        BY DEF Generations
      <4> QED
        BY <1>0, <1>a, <2>2, <3>2, <4>1 DEF Distinct
    <3> QED
      BY <1>1, <1>4, <3>1, <3>2, <3>3, <3>4
  <2> QED
    BY <2>1, <2>2
<1> QED
  BY <1>5, <1>6, <1>7, <1>8, <1>9, <1>10 DEF IInv

\* A user gives up the channel.
LEMMA Dropping ==
    ASSUME IInv, UNCHANGED << get_generation, set_generation, buffer, op, upc, gen >>,
           closed' = closed, overtaken' = overtaken
    PROVE  IInv'
<1>0. Types /\ UsersKnow /\ Distinct /\ Entries /\ Promises /\ Kept
  BY DEF IInv
<1>1. /\ UNCHANGED << get_generation, set_generation, buffer_map, deletable, value_set, promise >>
      /\ closed' = closed /\ overtaken' = overtaken /\ op' = op /\ upc' = upc /\ gen' = gen
  BY DEF buffer
<1>2. \A h : (HasGetter(h)' <=> HasGetter(h)) /\ (HasSetter(h)' <=> HasSetter(h))
  BY <1>1 DEF HasGetter, HasSetter
<1>3. Types' /\ Distinct'
  BY <1>0, <1>1 DEF Types, CallersOf, Distinct
<1>4. UsersKnow'
  <2> SUFFICES ASSUME NEW v \in Users PROVE UsersKnow!(v)'
    BY ZenonT(30) DEF UsersKnow
  <2>1. UsersKnow!(v)
    BY <1>0, Zenon DEF UsersKnow
  <2>2. /\ op'[v] = op[v] /\ upc'[v] = upc[v] /\ gen'[v] = gen[v] /\ value_set' = value_set
        /\ get_generation' = get_generation /\ set_generation' = set_generation
    BY <1>1
  <2> QED
    BY <2>1, <2>2, ZenonT(30)
<1>5. Entries'
  BY <1>0, <1>1, <1>2 DEF Entries
<1>6. Promises'
  BY <1>0, <1>1 DEF Promises
<1>7. Kept'
  BY <1>0, <1>1, <1>2 DEF Kept
<1> QED
  BY <1>3, <1>4, <1>5, <1>6, <1>7 DEF IInv

LEMMA ChannelStep == ASSUME IsFiniteSet(Users), IInv, [Next]_channelVars PROVE IInv'
<1>1. CASE UNCHANGED channelVars
  <2>1. /\ UNCHANGED << get_generation, set_generation, buffer, op, upc, gen >>
        /\ closed' = closed /\ overtaken' = overtaken
    BY <1>1 DEF channelVars
  <2> QED
    BY <2>1, Dropping
<1>2. ASSUME NEW u \in Users, get_fails(u) PROVE IInv'
  BY <1>2, Failing DEF get_fails
<1>3. ASSUME NEW u \in Users, get(u) PROVE IInv'
  <2>1. Calls(u, "get") /\ get_generation' = get_generation + 1 /\ "get" \in Gets
    BY <1>3 DEF get, Gets
  <2>2. set_generation' = set_generation /\ closed' = closed /\ overtaken' = overtaken
    BY <1>3 DEF get
  <2>3. CASE fails(u)
    BY <2>1, <2>2, <2>3, Failing
  <2>4. CASE receives(u, get_generation')
    BY <2>1, <2>2, <2>4, Receiving
  <2> QED
    BY <1>3, <2>3, <2>4 DEF get
<1>4. ASSUME NEW u \in Users, try_get(u) PROVE IInv'
  <2>1. Calls(u, "try_get") /\ "try_get" \in Gets
    BY <1>4 DEF try_get, Gets
  <2>2. set_generation' = set_generation /\ closed' = closed /\ overtaken' = overtaken
    BY <1>4 DEF try_get
  <2>3. CASE fails(u) /\ UNCHANGED get_generation
    BY <2>1, <2>2, <2>3, Failing
  <2>4. CASE get_generation' = get_generation + 1 /\ receives(u, get_generation')
    BY <2>1, <2>2, <2>4, Receiving
  <2> QED
    BY <1>4, <2>3, <2>4 DEF try_get
<1>5. ASSUME NEW u \in Users, set_fails(u) PROVE IInv'
  BY <1>5, Failing DEF set_fails
<1>6. ASSUME NEW u \in Users, close_fails(u) PROVE IInv'
  BY <1>6, Failing DEF close_fails
<1>7. ASSUME NEW u \in Users, drop(u) PROVE IInv'
  <2>1. /\ UNCHANGED << get_generation, set_generation, buffer, op, upc, gen >>
        /\ closed' = closed /\ overtaken' = overtaken
    BY <1>7 DEF drop
  <2> QED
    BY <2>1, Dropping
<1> QED
  BY <1>1, <1>2, <1>3, <1>4, <1>5, <1>6, <1>7, Setting, Closing, ValueSet, GoingOn, Cancelling,
     Throwing
     DEF Next, Proceed

\* For any finite set of users, each value of a channel goes to one getter, in the order
\* of the calls of set and get, and a value that set has stored is in the buffer until
\* a getter has its future, although values are stored without the lock and close
\* cancels what waits (channel.hpp, receive_buffer.hpp).
THEOREM ChannelKeepsValues ==
    ASSUME IsFiniteSet(Users)
    PROVE  Spec => [](OneValuePerGetter /\ NoValueIsLost)
<1>1. IInv => OneValuePerGetter
  <2> SUFFICES ASSUME IInv, NEW g \in Generations PROVE OneValuePerGetter!(g)
    BY DEF OneValuePerGetter
  <2>0. g # 0
    BY DEF Generations
  <2>1. Types /\ Distinct /\ Entries!(g) /\ Promises
    BY DEF IInv, Entries
  <2>2. \A u, v \in Getters(g) : u = v
    BY <2>0, <2>1 DEF Distinct, Getters, Gets
  <2>3. \A u, v \in Setters(g) : u = v
    BY <2>0, <2>1 DEF Distinct, Setters
  <2>4. Cardinality(Getters(g)) <= 1
    <3>1. Getters(g) = {} => Cardinality(Getters(g)) = 0
      BY FS_EmptySet
    <3>2. \A x : Getters(g) = {x} => Cardinality(Getters(g)) = 1
      BY FS_Singleton
    <3>3. Cardinality(Getters(g)) \in {0, 1}
      BY <2>2, <3>1, <3>2
    <3> QED
      BY <3>3
  <2>5. Cardinality(Setters(g)) <= 1
    <3>1. Setters(g) = {} => Cardinality(Setters(g)) = 0
      BY FS_EmptySet
    <3>2. \A x : Setters(g) = {x} => Cardinality(Setters(g)) = 1
      BY FS_Singleton
    <3>3. Cardinality(Setters(g)) \in {0, 1}
      BY <2>3, <3>1, <3>2
    <3> QED
      BY <3>3
  <2>6. promise[g] \notin {nothing, cancelled} => Setters(g) = {promise[g]}
    BY <2>1, <2>3 DEF Promises, Setters
  <2>7. (HasGetter(g) <=> Getters(g) # {}) /\ (HasSetter(g) <=> Setters(g) # {})
    BY DEF HasGetter, HasSetter, Getters, Setters, Gets
  <2>8. g \in buffer_map /\ ~overtaken => (Getters(g) = {}) # (Setters(g) = {})
    BY <2>1, <2>7
  <2> QED
    BY <2>4, <2>5, <2>6, <2>8
<1>2. IInv => NoValueIsLost
  BY DEF IInv, Kept, NoValueIsLost, HasGetter, Getters, Gets
<1> QED
  BY <1>1, <1>2, ChannelInit, ChannelStep, PTL DEF Spec
=============================================================================
