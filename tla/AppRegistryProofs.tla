------------------------- MODULE AppRegistryProofs --------------------------
(***************************************************************************)
(* Routes stay, routed work is hosted and bound methods have one instance, *)
(* for any classes, functions, names, queues and orders of registration.   *)
(***************************************************************************)
EXTENDS AppRegistry, TLAPS

\* The two tables say the same of an object, and the key is what Temporal
\* calls it.
TablesAgree ==
    /\ \A ref \in DOMAIN byRef :
        TypeOf(ref) \in DOMAIN byName /\ byName[TypeOf(ref)] = byRef[ref]
    /\ \A e \in DOMAIN byName : TypeOf(byName[e].ref) = e

\* A worker hosts what was registered for its queue when it was built.
WorkersAgree ==
    /\ built \subseteq DOMAIN byName
    /\ \A q \in DOMAIN workers : \A h \in workers[q] :
        TypeOf(h.ref) \in built /\ byName[TypeOf(h.ref)].queue = q
    /\ \A e \in built :
        /\ byName[e].queue \in DOMAIN workers
        /\ \E h \in workers[byName[e].queue] : TypeOf(h.ref) = e

RInv ==
    /\ RegistryTypeOK
    /\ TablesAgree
    /\ WorkersAgree
    /\ MethodsHaveOneInstance

-----------------------------------------------------------------------------
LEMMA DefinitionsAreTyped ==
    ASSUME RegistryTypeOK, NEW ref \in Refs, NEW supplied \in Supplied
    PROVE  DefinitionOf(ref, supplied) \in Definition
<1>1. CASE native[ref] # Undefined
  BY <1>1 DEF DefinitionOf, RegistryTypeOK
<1>2. CASE native[ref] = Undefined
  <2>1. Named(ref, supplied.name) \in TypeNames
    BY RegistryAssumption DEF Named, Supplied
  <2> QED  BY <1>2, <2>1 DEF DefinitionOf, Definition, Supplied
<1> QED  BY <1>1, <1>2

\* A definition is made once: an object that has a type name keeps it.
LEMMA NamesStay ==
    ASSUME RegistryTypeOK, [Next]_rvars, NEW ref \in Refs, native[ref] # Undefined
    PROVE  native'[ref] = native[ref] /\ TypeOf(ref)' = TypeOf(ref)
<1>1. native'[ref] = native[ref]
  <2>1. CASE \E r \in Refs, queue \in Queues, supplied \in Supplied :
                Decorate(r, queue, supplied)
    BY <2>1 DEF Decorate, DefinitionOf, RegistryTypeOK
  <2>2. CASE (\E given \in SUBSET Instances : CreateWorkers(given)) \/ UNCHANGED rvars
    BY <2>2 DEF CreateWorkers, rvars
  <2> QED  BY <2>1, <2>2 DEF Next
<1> QED  BY <1>1 DEF TypeOf

LEMMA RegisteredIsDefined ==
    ASSUME RegistryTypeOK, NEW ref \in Refs, TypeOf(ref) \in DOMAIN byName
    PROVE  native[ref] # Undefined
<1>1. native[ref].name \in TypeNames
  BY DEF RegistryTypeOK, Entry, TypeOf
<1> QED  BY <1>1, RegistryAssumption DEF Undefined

\* What a decorator does: nothing to the tables, or one new row in each.
LEMMA DecorateAddsOneRow ==
    ASSUME RegistryTypeOK, TablesAgree,
           NEW ref \in Refs, NEW queue \in Queues, NEW supplied \in Supplied,
           Decorate(ref, queue, supplied)
    PROVE  \/ UNCHANGED <<byName, byRef>>
           \/ /\ TypeOf(ref)' \in Entry \ DOMAIN byName
              /\ ref \notin DOMAIN byRef
              /\ \E row \in Registration :
                    /\ row.ref = ref
                    /\ byName' = With(byName, TypeOf(ref)', row)
                    /\ byRef' = With(byRef, ref, row)
<1> DEFINE definition == DefinitionOf(ref, supplied)
           entry == EntryFor(ref, definition)
<1>1. definition \in Definition
  BY DefinitionsAreTyped
<1>2. native'[ref] = definition /\ TypeOf(ref)' = entry
  BY DEF Decorate, EntryFor, TypeOf, RegistryTypeOK
<1>3. CASE HasName(definition) /\ ~Conflicts(ref, supplied, definition) /\ ~Taken(entry)
  <2> DEFINE row == [name |-> entry[2], queue |-> queue, ref |-> ref]
  <2>1. definition.name \in TypeNames
    BY <1>1, <1>3 DEF HasName, Definition
  <2>2. entry \in Entry /\ entry[2] \in TypeNames
    BY <2>1 DEF EntryFor, Entry, KindOf
  <2>3. row \in Registration
    BY <2>2 DEF Registration
  <2>4. entry \notin DOMAIN byName
    BY <1>3 DEF Taken
  <2>5. ref \notin DOMAIN byRef
    <3> SUFFICES ASSUME ref \in DOMAIN byRef PROVE FALSE
      OBVIOUS
    <3>1. TypeOf(ref) \in DOMAIN byName
      BY DEF TablesAgree
    <3>2. TypeOf(ref) = entry
      BY <3>1, RegisteredIsDefined DEF DefinitionOf, EntryFor, TypeOf
    <3> QED  BY <2>4, <3>1, <3>2
  <2>6. byName' = With(byName, entry, row) /\ byRef' = With(byRef, ref, row)
    BY <1>3 DEF Decorate, Register
  <2>7. row.ref = ref
    OBVIOUS
  <2> HIDE DEF row, entry
  <2> QED  BY <1>2, <2>2, <2>3, <2>4, <2>5, <2>6, <2>7
<1>4. CASE ~(HasName(definition) /\ ~Conflicts(ref, supplied, definition) /\ ~Taken(entry))
  BY <1>4 DEF Decorate
<1> QED  BY <1>3, <1>4

\* A row that is there stays as it is, and so does what it is the row of.
LEMMA RowsStay ==
    ASSUME RegistryTypeOK, TablesAgree, [Next]_rvars
    PROVE  /\ DOMAIN byName \subseteq DOMAIN byName'
           /\ \A e \in DOMAIN byName : byName'[e] = byName[e]
           /\ DOMAIN byRef \subseteq DOMAIN byRef'
           /\ \A ref \in DOMAIN byRef : byRef'[ref] = byRef[ref]
<1>1. CASE \E ref \in Refs, queue \in Queues, supplied \in Supplied :
              Decorate(ref, queue, supplied)
  <2> PICK ref \in Refs, queue \in Queues, supplied \in Supplied :
              Decorate(ref, queue, supplied)
    BY <1>1
  <2>1. CASE UNCHANGED <<byName, byRef>>
    BY <2>1
  <2>2. CASE ~UNCHANGED <<byName, byRef>>
    <3>1. PICK row : /\ byName' = With(byName, TypeOf(ref)', row)
                     /\ byRef' = With(byRef, ref, row)
                     /\ TypeOf(ref)' \notin DOMAIN byName
                     /\ ref \notin DOMAIN byRef
      BY <2>2, DecorateAddsOneRow
    <3> QED  BY <3>1 DEF With
  <2> QED  BY <2>1, <2>2
<1>2. CASE (\E given \in SUBSET Instances : CreateWorkers(given)) \/ UNCHANGED rvars
  BY <1>2 DEF CreateWorkers, rvars
<1> QED  BY <1>1, <1>2 DEF Next

LEMMA TypeNext ==
    ASSUME RegistryTypeOK, TablesAgree, [Next]_rvars
    PROVE  RegistryTypeOK'
<1>1. CASE \E ref \in Refs, queue \in Queues, supplied \in Supplied :
              Decorate(ref, queue, supplied)
  <2> PICK ref \in Refs, queue \in Queues, supplied \in Supplied :
              Decorate(ref, queue, supplied)
    BY <1>1
  <2>1. native' \in [Refs -> Definition \union {Undefined}]
    BY DefinitionsAreTyped DEF Decorate, RegistryTypeOK
  <2>2. CASE UNCHANGED <<byName, byRef>>
    BY <2>1, <2>2 DEF Decorate, RegistryTypeOK
  <2>3. CASE ~UNCHANGED <<byName, byRef>>
    <3>1. PICK row \in Registration :
              /\ byName' = With(byName, TypeOf(ref)', row)
              /\ byRef' = With(byRef, ref, row)
              /\ TypeOf(ref)' \in Entry
      BY <2>3, DecorateAddsOneRow
    <3>2. /\ DOMAIN byName' \subseteq Entry
          /\ \A e \in DOMAIN byName' : byName'[e] \in Registration
      BY <3>1 DEF RegistryTypeOK, With
    <3>3. /\ DOMAIN byRef' \subseteq Refs
          /\ \A r \in DOMAIN byRef' : byRef'[r] \in Registration
      BY <3>1 DEF RegistryTypeOK, With
    <3> QED  BY <2>1, <3>2, <3>3 DEF Decorate, RegistryTypeOK
  <2> QED  BY <2>2, <2>3
<1>2. CASE \E given \in SUBSET Instances : CreateWorkers(given)
  <2> PICK given \in SUBSET Instances : CreateWorkers(given)
    BY <1>2
  <2>1. \A e \in DOMAIN byName : Bound(byName[e].ref, given) \in Hosted
    BY DEF Bound, Hosted, RegistryTypeOK, Registration
  <2>2. \A e \in DOMAIN byName : byName[e].queue \in Queues
    BY DEF RegistryTypeOK, Registration
  <2> QED  BY <2>1, <2>2 DEF CreateWorkers, RegistryTypeOK
<1>3. CASE UNCHANGED rvars
  BY <1>3 DEF rvars, RegistryTypeOK
<1> QED  BY <1>1, <1>2, <1>3 DEF Next

LEMMA TablesNext ==
    ASSUME RegistryTypeOK, TablesAgree, [Next]_rvars
    PROVE  TablesAgree'
<1>0. \A ref \in Refs : TypeOf(ref) \in DOMAIN byName => TypeOf(ref)' = TypeOf(ref)
  BY RegisteredIsDefined, NamesStay
<1>1. CASE \E ref \in Refs, queue \in Queues, supplied \in Supplied :
              Decorate(ref, queue, supplied)
  <2> PICK ref \in Refs, queue \in Queues, supplied \in Supplied :
              Decorate(ref, queue, supplied)
    BY <1>1
  <2> DEFINE old == DOMAIN byName
  <2>1. \A r \in DOMAIN byRef : r \in Refs /\ TypeOf(r) \in old /\ byName[TypeOf(r)] = byRef[r]
    BY DEF RegistryTypeOK, TablesAgree
  <2>2. \A e \in old : byName[e].ref \in Refs /\ TypeOf(byName[e].ref) = e
    BY DEF RegistryTypeOK, TablesAgree, Registration
  <2>3. CASE UNCHANGED <<byName, byRef>>
    BY <1>0, <2>1, <2>2, <2>3 DEF TablesAgree
  <2>4. CASE ~UNCHANGED <<byName, byRef>>
    <3>1. PICK row \in Registration :
              /\ row.ref = ref
              /\ byName' = With(byName, TypeOf(ref)', row)
              /\ byRef' = With(byRef, ref, row)
              /\ TypeOf(ref)' \notin old
              /\ ref \notin DOMAIN byRef
      BY <2>4, DecorateAddsOneRow
    <3>2. \A r \in DOMAIN byRef' :
              TypeOf(r)' \in DOMAIN byName' /\ byName'[TypeOf(r)'] = byRef'[r]
      <4> SUFFICES ASSUME NEW r \in DOMAIN byRef'
                   PROVE  TypeOf(r)' \in DOMAIN byName' /\ byName'[TypeOf(r)'] = byRef'[r]
        OBVIOUS
      <4>1. CASE r = ref
        BY <3>1, <4>1 DEF With
      <4>2. CASE r # ref
        <5>1. r \in DOMAIN byRef /\ byRef'[r] = byRef[r]
          BY <3>1, <4>2 DEF With
        <5>2. TypeOf(r)' = TypeOf(r) /\ TypeOf(r) \in old /\ byName[TypeOf(r)] = byRef[r]
          BY <1>0, <2>1, <5>1
        <5>3. TypeOf(r) # TypeOf(ref)'
          BY <3>1, <5>2
        <5>4. TypeOf(r) \in DOMAIN byName' /\ byName'[TypeOf(r)] = byName[TypeOf(r)]
          BY <3>1, <5>2, <5>3 DEF With
        <5> QED  BY <5>1, <5>2, <5>4
      <4> QED  BY <4>1, <4>2
    <3>3. \A e \in DOMAIN byName' : \A r \in Refs : byName'[e].ref = r => TypeOf(r)' = e
      <4> SUFFICES ASSUME NEW e \in DOMAIN byName', NEW r \in Refs, byName'[e].ref = r
                   PROVE  TypeOf(r)' = e
        OBVIOUS
      <4>1. CASE e = TypeOf(ref)'
        <5>1. byName'[e] = row
          BY <3>1, <4>1 DEF With
        <5>2. r = ref
          BY <3>1, <5>1
        <5> QED  BY <4>1, <5>2
      <4>2. CASE e # TypeOf(ref)'
        <5>1. e \in old /\ byName'[e] = byName[e]
          BY <3>1, <4>2 DEF With
        <5> QED  BY <1>0, <2>2, <5>1
      <4> QED  BY <4>1, <4>2
    <3>4. \A e \in DOMAIN byName' : byName'[e].ref \in Refs
      BY TypeNext DEF RegistryTypeOK, Registration
    <3>5. \A e \in DOMAIN byName' :
              <<KindOf(byName'[e].ref), native'[byName'[e].ref].name>> = e
      BY <3>3, <3>4 DEF TypeOf
    <3> QED  BY <3>2, <3>5 DEF TablesAgree, TypeOf
  <2> QED  BY <2>3, <2>4
<1>2. CASE (\E given \in SUBSET Instances : CreateWorkers(given)) \/ UNCHANGED rvars
  BY <1>2 DEF CreateWorkers, rvars, TablesAgree, TypeOf
<1> QED  BY <1>1, <1>2 DEF Next

\* Whoever asks for work of a registered name is told the queue of that name.
LEMMA RouteByName ==
    ASSUME TablesAgree, NEW ref, TypeOf(ref) \in DOMAIN byName
    PROVE  Route(ref) = byName[TypeOf(ref)].queue
  BY DEF TablesAgree, Route

LEMMA NoRouteWithoutName ==
    ASSUME TablesAgree, NEW ref, TypeOf(ref) \notin DOMAIN byName
    PROVE  Route(ref) = Nowhere
  BY DEF TablesAgree, Route

LEMMA RouteStays ==
    ASSUME RegistryTypeOK, TablesAgree, TablesAgree', [Next]_rvars,
           NEW ref \in Refs, Route(ref) # Nowhere
    PROVE  Route(ref)' = Route(ref)
<1>1. TypeOf(ref) \in DOMAIN byName
  BY NoRouteWithoutName
<1>2. TypeOf(ref)' = TypeOf(ref)
  BY <1>1, RegisteredIsDefined, NamesStay
<1>3. TypeOf(ref)' \in DOMAIN byName' /\ byName'[TypeOf(ref)'] = byName[TypeOf(ref)]
  BY <1>1, <1>2, RowsStay
<1>4. Route(ref)' = byName'[TypeOf(ref)'].queue
  BY <1>3 DEF TablesAgree, Route
<1> QED  BY <1>1, <1>3, <1>4, RouteByName

\* Only building changes the workers.
LEMMA OthersKeepWorkers ==
    ASSUME [Next]_rvars, ~(\E given \in SUBSET Instances : CreateWorkers(given))
    PROVE  UNCHANGED <<workers, built>>
  BY DEF Next, Decorate, rvars

\* What the new workers host is what was registered, each at its queue.
LEMMA BuiltFromTheTable ==
    ASSUME RegistryTypeOK, NEW given \in SUBSET Instances, CreateWorkers(given)
    PROVE  /\ UNCHANGED <<native, byName, byRef>>
           /\ built' = DOMAIN byName
           /\ \A e \in DOMAIN byName :
                /\ byName[e].queue \in DOMAIN workers'
                /\ Bound(byName[e].ref, given) \in workers'[byName[e].queue]
           /\ \A q \in DOMAIN workers' : \A h \in workers'[q] :
                \E e \in DOMAIN byName :
                    byName[e].queue = q /\ h = Bound(byName[e].ref, given)
<1> DEFINE registrations == {byName[e] : e \in DOMAIN byName}
           queues == {r.queue : r \in registrations}
           hosted(q) == {Bound(r.ref, given) : r \in {r \in registrations : r.queue = q}}
<1>1. UNCHANGED <<native, byName, byRef>> /\ built' = DOMAIN byName
  BY DEF CreateWorkers
<1>2. workers' = [q \in queues |-> hosted(q)]
  BY DEF CreateWorkers
<1>3. \A e \in DOMAIN byName :
          byName[e].queue \in queues /\ Bound(byName[e].ref, given) \in hosted(byName[e].queue)
  OBVIOUS
<1>4. \A q : \A h \in hosted(q) :
          \E e \in DOMAIN byName : byName[e].queue = q /\ h = Bound(byName[e].ref, given)
  OBVIOUS
<1>5. DOMAIN workers' = queues /\ \A q \in queues : workers'[q] = hosted(q)
  <2> HIDE DEF queues, hosted
  <2> QED  BY <1>2
<1> HIDE DEF queues, hosted
<1> QED  BY <1>1, <1>3, <1>4, <1>5

LEMMA WorkersNext ==
    ASSUME RegistryTypeOK, TablesAgree, WorkersAgree, [Next]_rvars
    PROVE  WorkersAgree'
<1>1. CASE \E given \in SUBSET Instances : CreateWorkers(given)
  <2> PICK given \in SUBSET Instances : CreateWorkers(given)
    BY <1>1
  <2>1. \A r : TypeOf(r)' = TypeOf(r)
    BY BuiltFromTheTable DEF TypeOf
  <2>2. \A e \in DOMAIN byName : TypeOf(Bound(byName[e].ref, given).ref) = e
    BY DEF Bound, TablesAgree
  <2>3. built' = DOMAIN byName /\ byName' = byName
    BY BuiltFromTheTable
  <2>4. \A q \in DOMAIN workers' : \A h \in workers'[q] :
            TypeOf(h.ref) \in built' /\ byName[TypeOf(h.ref)].queue = q
    BY <2>2, <2>3, BuiltFromTheTable
  <2>5. \A e \in built' :
            /\ byName[e].queue \in DOMAIN workers'
            /\ \E h \in workers'[byName[e].queue] : TypeOf(h.ref) = e
    BY <2>2, <2>3, BuiltFromTheTable
  <2>6. native' = native
    BY BuiltFromTheTable
  <2> QED  BY <2>3, <2>4, <2>5, <2>6 DEF WorkersAgree, TypeOf
<1>2. CASE ~(\E given \in SUBSET Instances : CreateWorkers(given))
  <2>1. UNCHANGED <<workers, built>>
    BY <1>2, OthersKeepWorkers
  <2>2. DOMAIN byName \subseteq DOMAIN byName' /\ \A e \in DOMAIN byName : byName'[e] = byName[e]
    BY RowsStay
  <2>3. \A q \in DOMAIN workers : \A h \in workers[q] :
            h.ref \in Refs /\ TypeOf(h.ref) \in DOMAIN byName
    BY DEF WorkersAgree, RegistryTypeOK, Hosted
  <2>4. \A q \in DOMAIN workers : \A h \in workers[q] :
            <<KindOf(h.ref), native'[h.ref].name>> = TypeOf(h.ref)
    <3> TAKE q \in DOMAIN workers
    <3> TAKE h \in workers[q]
    <3>1. native[h.ref] # Undefined
      BY <2>3, RegisteredIsDefined
    <3>2. native'[h.ref] = native[h.ref]
      BY <2>3, <3>1, NamesStay
    <3> QED  BY <3>2 DEF TypeOf
  <2>5. built \subseteq DOMAIN byName
    BY DEF WorkersAgree
  <2>6. \A q \in DOMAIN workers : \A h \in workers[q] :
            TypeOf(h.ref) \in built /\ byName[TypeOf(h.ref)].queue = q
    BY DEF WorkersAgree
  <2>7. \A e \in built :
            /\ byName[e].queue \in DOMAIN workers
            /\ \E h \in workers[byName[e].queue] : TypeOf(h.ref) = e
    BY DEF WorkersAgree
  <2>8. built' \subseteq DOMAIN byName'
    BY <2>1, <2>2, <2>5
  <2>9. \A q \in DOMAIN workers' : \A h \in workers'[q] :
            /\ <<KindOf(h.ref), native'[h.ref].name>> \in built'
            /\ byName'[<<KindOf(h.ref), native'[h.ref].name>>].queue = q
    BY <2>1, <2>2, <2>4, <2>5, <2>6
  <2>10. \A e \in built' :
            /\ byName'[e].queue \in DOMAIN workers'
            /\ \E h \in workers'[byName'[e].queue] : <<KindOf(h.ref), native'[h.ref].name>> = e
    BY <2>1, <2>2, <2>4, <2>5, <2>7
  <2> QED  BY <2>8, <2>9, <2>10 DEF WorkersAgree, TypeOf
<1> QED  BY <1>1, <1>2

\* Bindable finds every registered method exactly one instance.
LEMMA MethodsNext ==
    ASSUME RegistryTypeOK, TablesAgree, MethodsHaveOneInstance, [Next]_rvars
    PROVE  MethodsHaveOneInstance'
<1>1. CASE \E given \in SUBSET Instances : CreateWorkers(given)
  <2> PICK given \in SUBSET Instances : CreateWorkers(given)
    BY <1>1
  <2>1. Bindable(given)
    BY DEF CreateWorkers
  <2>2. \A e \in DOMAIN byName : byName[e].ref \in Methods =>
            \E i \in Instances :
                /\ Bound(byName[e].ref, given).by = {i}
                /\ byName[e].ref \in Provides[i] \ Hidden[i]
    <3> SUFFICES ASSUME NEW e \in DOMAIN byName, byName[e].ref \in Methods
                 PROVE  \E i \in Instances :
                            /\ Bound(byName[e].ref, given).by = {i}
                            /\ byName[e].ref \in Provides[i] \ Hidden[i]
      OBVIOUS
    <3> DEFINE a == byName[e].ref
    <3>1. e[1] = "activity"
      BY RegistryAssumption DEF TablesAgree, TypeOf, KindOf
    <3>2. a \in Registered("activity") \intersect Methods
      BY <3>1 DEF Registered
    <3>3. PICK i \in given : a \in Provided(i)
      BY <2>1, <3>2 DEF Bindable
    <3>4. \A j \in given : a \in Provided(j) => j = i
      BY <2>1, <3>3 DEF Bindable
    <3>5. {j \in given : a \in Provided(j)} = {i}
      BY <3>3, <3>4
    <3>6. a \in Provides[i] \ Hidden[i]
      BY <2>1, <3>3 DEF Bindable, Provided
    <3> QED  BY <3>5, <3>6 DEF Bound
  <2>3. \A q \in DOMAIN workers' : \A h \in workers'[q] :
            \E e \in DOMAIN byName : h = Bound(byName[e].ref, given)
    BY BuiltFromTheTable
  <2>4. \A ref : Bound(ref, given).ref = ref
    BY DEF Bound
  <2> QED  BY <2>2, <2>3, <2>4 DEF MethodsHaveOneInstance
<1>2. CASE ~(\E given \in SUBSET Instances : CreateWorkers(given))
  BY <1>2, OthersKeepWorkers DEF MethodsHaveOneInstance
<1> QED  BY <1>1, <1>2

LEMMA InitRegistry == Init => RInv
  BY DEF Init, RInv, RegistryTypeOK, TablesAgree, WorkersAgree, MethodsHaveOneInstance

LEMMA RegistryInductive == RInv /\ [Next]_rvars => RInv'
  BY TypeNext, TablesNext, WorkersNext, MethodsNext DEF RInv

\* Types, agreement of the tables and of the workers with them, and bindings are
\* kept together by every decorator call and by building.
THEOREM RegistryKeepsInvariant == Spec => []RInv
<1>1. Init => RInv
  BY InitRegistry
<1>2. RInv /\ [Next]_rvars => RInv'
  BY RegistryInductive
<1> QED  BY <1>1, <1>2, PTL DEF Spec

\* The tables, the workers and the definitions keep their types.
THEOREM RegistryIsTyped == Spec => []RegistryTypeOK
<1>1. RInv => RegistryTypeOK
  BY DEF RInv
<1> QED  BY <1>1, RegistryKeepsInvariant, PTL

\* Whoever asks for work whose name had a worker built for it is sent to the
\* queue of that worker, and to no other queue that hosts the name.
THEOREM RoutedWorkHasItsWorker == Spec => []RoutedWorkIsHosted
<1>1. RInv => RoutedWorkIsHosted
  <2> SUFFICES ASSUME RInv, NEW ref \in Refs, TypeOf(ref) \in built
               PROVE  {q \in DOMAIN workers : \E h \in workers[q] : TypeOf(h.ref) = TypeOf(ref)}
                        = {Route(ref)}
    BY DEF RoutedWorkIsHosted
  <2> DEFINE queue == byName[TypeOf(ref)].queue
  <2>1. TypeOf(ref) \in DOMAIN byName
    BY DEF RInv, WorkersAgree
  <2>2. Route(ref) = queue
    BY <2>1, RouteByName DEF RInv
  <2>3. queue \in DOMAIN workers /\ \E h \in workers[queue] : TypeOf(h.ref) = TypeOf(ref)
    BY DEF RInv, WorkersAgree
  <2>4. \A q \in DOMAIN workers : \A h \in workers[q] : TypeOf(h.ref) = TypeOf(ref) => q = queue
    BY DEF RInv, WorkersAgree
  <2> QED  BY <2>2, <2>3, <2>4
<1> QED  BY <1>1, RegistryKeepsInvariant, PTL

\* However many instances a host offers, a registered method is bound to one.
THEOREM BoundMethodsHaveOneInstance == Spec => []MethodsHaveOneInstance
<1>1. RInv => MethodsHaveOneInstance
  BY DEF RInv
<1> QED  BY <1>1, RegistryKeepsInvariant, PTL

\* No later import, and no execution of a module in a sandbox, moves work that
\* has a queue to another one.
THEOREM RegistrationIsFinal == Spec => RoutesNeverMove
<1>1. RInv /\ RInv' /\ [Next]_rvars =>
        [\A ref \in Refs : Route(ref) # Nowhere => Route(ref)' = Route(ref)]_rvars
  BY RouteStays DEF RInv
<1> QED  BY <1>1, RegistryKeepsInvariant, PTL DEF Spec, RoutesNeverMove
=============================================================================
