---------------------------- MODULE AppRegistry -----------------------------
(***************************************************************************)
(* The registry and router of the Temporal engine.  Modules register their *)
(* workflow classes and activity functions on a queue while they are       *)
(* imported, in any order; the host then has one worker built per queue;   *)
(* and whoever starts a workflow or an activity asks the registry for its  *)
(* queue, while Temporal dispatches by the name in the native definition.  *)
(*                                                                         *)
(* Validating and replaying a workflow executes its module again, in a     *)
(* sandbox that shares the registry: the decorator then sees a new class   *)
(* of the same name.  So the same Temporal name may belong to several      *)
(* objects, and two tables have to agree about it.                         *)
(***************************************************************************)
EXTENDS Naturals

CONSTANTS
    Workflows,   \* class objects, the sandbox's copies included
    Activities,  \* function objects
    Methods,     \* the activities that are methods of a class
    Instances,   \* objects a host may offer to bind methods to
    Provides,    \* instance -> the activities among its class's attributes
    Hidden,      \* instance -> those that its own attribute hides
    OwnName,     \* object -> its Python name
    TypeNames,   \* Temporal type names
    Queues,
    Options      \* values of the other options of a definition

Refs == Workflows \union Activities

\* An option a decorator was not given, and one given as None.
Unset == "unset"
Default == "default"

\* A dynamic definition has no type name, and no definition has none either.
Dynamic == "dynamic"

Undefined == [name |-> "undefined", option |-> "undefined"]

ASSUME RegistryAssumption ==
    /\ Workflows \intersect Activities = {}
    /\ Methods \subseteq Activities
    /\ Provides \in [Instances -> SUBSET Activities]
    /\ Hidden \in [Instances -> SUBSET Activities]
    /\ OwnName \in [Refs -> TypeNames]
    /\ TypeNames \intersect {Unset, Default, Dynamic, Undefined.name} = {}

Definition ==
    [name : TypeNames \union {Dynamic}, option : Options \union {Default}]

Supplied ==
    [name : TypeNames \union {Unset, Default}, option : Options \union {Unset}]

VARIABLES
    native,   \* object -> its native definition, or Undefined
    byName,   \* <<kind, type name>> -> Registration
    byRef,    \* object -> Registration
    workers,  \* queue -> what its worker hosts
    built     \* the names that were registered when the workers were built

rvars == <<native, byName, byRef, workers, built>>

Registration == [name : TypeNames, queue : Queues, ref : Refs]

KindOf(ref) == IF ref \in Workflows THEN "workflow" ELSE "activity"

Entry == {"workflow", "activity"} \X TypeNames

Hosted == [ref : Refs, by : SUBSET Instances]

RegistryTypeOK ==
    /\ native \in [Refs -> Definition \union {Undefined}]
    /\ DOMAIN byName \subseteq Entry
    /\ \A e \in DOMAIN byName : byName[e] \in Registration
    /\ DOMAIN byRef \subseteq Refs
    /\ \A ref \in DOMAIN byRef : byRef[ref] \in Registration
    /\ DOMAIN workers \subseteq Queues
    /\ \A q \in DOMAIN workers : workers[q] \subseteq Hosted
    /\ built \subseteq Entry

\* Some objects already have a native definition when they meet the registry.
Init ==
    /\ native \in [Refs -> Definition \union {Undefined}]
    /\ byName = <<>>
    /\ byRef = <<>>
    /\ workers = <<>>
    /\ built = {}

-----------------------------------------------------------------------------
(* Registering.                                                            *)

Named(ref, name) == IF name \in {Unset, Default} THEN OwnName[ref] ELSE name

\* An object without a definition gets one from the options supplied.
DefinitionOf(ref, supplied) ==
    IF native[ref] # Undefined THEN native[ref]
    ELSE [name   |-> Named(ref, supplied.name),
          option |-> IF supplied.option = Unset THEN Default ELSE supplied.option]

\* An option that is repeated has to agree with the definition there is.
Conflicts(ref, supplied, definition) ==
    \/ supplied.name # Unset /\ Named(ref, supplied.name) # definition.name
    \/ supplied.option # Unset /\ supplied.option # definition.option

\* Fault: a dynamic definition is let in.
AnyName(definition) == TRUE

HasName(definition) == definition.name # Dynamic

\* Fault: a definition is registered under its Python name.
PythonEntryFor(ref, definition) == <<KindOf(ref), OwnName[ref]>>

EntryFor(ref, definition) == <<KindOf(ref), definition.name>>

\* Fault: a name that is registered again is overwritten.
OverwrittenEntry(entry) == FALSE

\* In a sandbox this is no error, outside it is; neither changes the tables.
Taken(entry) == entry \in DOMAIN byName

With(table, key, row) ==
    [k \in DOMAIN table \union {key} |-> IF k = key THEN row ELSE table[k]]

Register(ref, entry, queue) ==
    LET registration == [name |-> entry[2], queue |-> queue, ref |-> ref]
    IN  /\ byName' = With(byName, entry, registration)
        /\ byRef' = With(byRef, ref, registration)

\* The decorators.  A native definition that was made for a registration stays
\* when the registration is then refused.
Decorate(ref, queue, supplied) ==
    LET definition == DefinitionOf(ref, supplied)
        entry == EntryFor(ref, definition)
    IN  /\ native' = [native EXCEPT ![ref] = definition]
        /\ IF /\ HasName(definition)
              /\ ~Conflicts(ref, supplied, definition)
              /\ ~Taken(entry)
           THEN Register(ref, entry, queue)
           ELSE UNCHANGED <<byName, byRef>>
        /\ UNCHANGED <<workers, built>>

-----------------------------------------------------------------------------
(* Building the workers.                                                   *)

Registered(kind) == {byName[e].ref : e \in {e \in DOMAIN byName : e[1] = kind}}

\* What an instance of the host has to offer.
Provided(i) == Provides[i] \intersect (DOMAIN byRef)

\* Fault: the same activity may come from two instances.
BindableTwice(given) ==
    /\ \A i \in given : Provided(i) \intersect Hidden[i] = {}
    /\ \A a \in Registered("activity") \intersect Methods :
        \E i \in given : a \in Provided(i)

\* Nothing offered is hidden or offered twice, and every method is offered.
Bindable(given) ==
    /\ \A i \in given : Provided(i) \intersect Hidden[i] = {}
    /\ \A i, j \in given : i # j => Provided(i) \intersect Provided(j) = {}
    /\ \A a \in Registered("activity") \intersect Methods :
        \E i \in given : a \in Provided(i)

Bound(ref, given) ==
    [ref |-> ref, by |-> IF ref \in Methods THEN {i \in given : ref \in Provided(i)} ELSE {}]

CreateWorkers(given) ==
    /\ workers = <<>>
    /\ Bindable(given)
    /\ LET registrations == {byName[e] : e \in DOMAIN byName}
       IN  workers' = [q \in {r.queue : r \in registrations} |->
                         {Bound(r.ref, given) : r \in {r \in registrations : r.queue = q}}]
    /\ built' = DOMAIN byName
    /\ UNCHANGED <<native, byName, byRef>>

Next ==
    \/ \E ref \in Refs, queue \in Queues, supplied \in Supplied :
            Decorate(ref, queue, supplied)
    \/ \E given \in SUBSET Instances : CreateWorkers(given)

Spec == Init /\ [][Next]_rvars

-----------------------------------------------------------------------------
(* Routing.                                                                *)

Nowhere == "nowhere"

\* What Temporal calls an object, which is also the key of its registration.
TypeOf(ref) == <<KindOf(ref), native[ref].name>>

\* By the object itself, and by name for an object that is not registered: the
\* sandbox's copy of a workflow is one.
Route(ref) ==
    CASE ref \in DOMAIN byRef -> byRef[ref].queue
      [] ref \notin DOMAIN byRef /\ TypeOf(ref) \in DOMAIN byName ->
            byName[TypeOf(ref)].queue
      [] OTHER -> Nowhere

\* A workflow or activity whose name was registered when the workers were built
\* is routed to the one queue whose worker hosts that name.
RoutedWorkIsHosted ==
    \A ref \in Refs :
        LET hosts == {q \in DOMAIN workers : \E h \in workers[q] : TypeOf(h.ref) = TypeOf(ref)}
        IN  TypeOf(ref) \in built => hosts = {Route(ref)}

\* A method is hosted as the method of exactly one of the host's instances.
MethodsHaveOneInstance ==
    \A q \in DOMAIN workers : \A h \in workers[q] :
        h.ref \in Methods =>
            \E i \in Instances : h.by = {i} /\ h.ref \in Provides[i] \ Hidden[i]

\* Once work has a route, it keeps it: executing a module again, in a sandbox
\* or not, does not move running work to another queue.
RoutesNeverMove ==
    [][\A ref \in Refs : Route(ref) # Nowhere => Route(ref)' = Route(ref)]_rvars
=============================================================================
