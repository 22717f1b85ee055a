------------------------------ MODULE Plugins ------------------------------
(***************************************************************************)
(* PluginRegistry (src/plugin/registry.ts): requests fire hooks by walking *)
(* the plugin array with an await at each plugin, while use() and remove() *)
(* splice and push on the same array.  A step is the code between two      *)
(* awaits.  Every plugin has every hook, so that every visit is an await.  *)
(***************************************************************************)
EXTENDS Naturals, Sequences, SequencesExt, FiniteSets

CONSTANTS
  PluginNames,
  Fires,      \* calls of fireRequest(), fireResponse(), fireError(), destroyAll()
  Adders,     \* concurrent calls of add()
  MaxPlugins  \* bound: registrations

ASSUME PluginsAssumption == MaxPlugins \in Nat

VARIABLES
  plugins,   \* _plugins: registrations, numbered in the order they were pushed
  names,     \* _names
  pushed,    \* registrations so far
  adder,     \* calls of add(): {}, or the name whose old plugin is being destroyed
  fire,
  doubled      \* history: names two overlapping add() calls registered

pluginVars == <<plugins, names, pushed, adder, fire, doubled>>

Registration == [id : 1..MaxPlugins, name : PluginNames]
FireKinds == {"request", "report", "destroy"}

(* next is the array iterator's index.  History: what was registered at    *)
(* the start, what was called, what was passed over at the end, and the    *)
(* removals that shifted the array under the iterator.                     *)
NewFire == [phase |-> "new", kind |-> "report", next |-> 1, had |-> {}, called |-> <<>>,
            missed |-> {}, shifts |-> 0]

PluginsTypeOK ==
  /\ plugins \in Seq(Registration)
  /\ names \subseteq PluginNames
  /\ pushed \in 0..MaxPlugins
  /\ adder \in [Adders -> SUBSET PluginNames]
  /\ fire \in [Fires ->
       [phase : {"new", "hook", "over", "threw"}, kind : FireKinds, next : Nat,
        had : SUBSET (1..MaxPlugins), called : Seq(1..MaxPlugins),
        missed : SUBSET (1..MaxPlugins), shifts : Nat]]
  /\ doubled \subseteq PluginNames

PluginsInit ==
  /\ plugins = <<>>
  /\ names = {}
  /\ pushed = 0
  /\ adder = [a \in Adders |-> {}]
  /\ fire = [f \in Fires |-> NewFire]
  /\ doubled = {}

IdsOf(list) == {list[i].id : i \in DOMAIN list}

----------------------------------------------------------------------------
(* Walking the array.                                                      *)

(* for (const plugin of this._plugins): the next plugin's hook is called,  *)
(* or the walk is over; destroyAll() then empties the registry.            *)
Visit(f, w) ==
  IF w.next <= Len(plugins)
  THEN /\ fire' = [fire EXCEPT ![f] =
            [w EXCEPT !.phase = "hook", !.next = @ + 1,
                      !.called = Append(@, plugins[w.next].id)]]
       /\ UNCHANGED <<plugins, names>>
  ELSE /\ fire' = [fire EXCEPT ![f] =
            [w EXCEPT !.phase = "over", !.missed = (w.had \cap IdsOf(plugins)) \ ToSet(w.called)]]
       /\ IF w.kind = "destroy" THEN plugins' = <<>> /\ names' = {}
          ELSE UNCHANGED <<plugins, names>>

FireHooks(f, kind) ==
  /\ fire[f].phase = "new"
  /\ Visit(f, [fire[f] EXCEPT !.kind = kind, !.had = IdsOf(plugins)])
  /\ UNCHANGED <<pushed, adder, doubled>>

(* The hook settles; an error of it is swallowed, onRequest's excepted.    *)
HookSettles(f) ==
  /\ fire[f].phase = "hook"
  /\ Visit(f, fire[f])
  /\ UNCHANGED <<pushed, adder, doubled>>

RequestHookThrows(f) ==
  /\ fire[f].phase = "hook"
  /\ fire[f].kind = "request"
  /\ fire' = [fire EXCEPT ![f].phase = "threw"]
  /\ UNCHANGED <<plugins, names, pushed, adder, doubled>>

----------------------------------------------------------------------------
(* Changing it.                                                            *)

(* The array without the first plugin called n, up to the await of its     *)
(* destroy(); every walk that was past it has lost a place.                *)
Splice(n) ==
  LET at == CHOOSE i \in DOMAIN plugins :
              plugins[i].name = n /\ \A j \in 1..(i - 1) : plugins[j].name # n
  IN  /\ plugins' = RemoveAt(plugins, at)
      /\ names' = names \ {n}
      /\ fire' = [f \in Fires |->
           IF fire[f].phase = "hook" /\ at < fire[f].next
           THEN [fire[f] EXCEPT !.shifts = @ + 1] ELSE fire[f]]

Registered(n) == \E i \in DOMAIN plugins : plugins[i].name = n

Push(n) ==
  /\ pushed < MaxPlugins
  /\ pushed' = pushed + 1
  /\ plugins' = Append(plugins, [id |-> pushed + 1, name |-> n])
  /\ names' = names \cup {n}

(* Mutant: add() of a known name pushes without removing the old plugin.   *)
AddPluginTwice(a, n) ==
  /\ adder[a] = {}
  /\ Push(n)
  /\ doubled' = doubled \cup {m \in {n} : \E b \in Adders \ {a} : m \in adder[b]}
  /\ UNCHANGED <<adder, fire>>

(* add(): an old plugin of that name is removed first, with an await.      *)
AddPlugin(a, n) ==
  /\ adder[a] = {}
  /\ doubled' = doubled \cup {m \in {n} : \E b \in Adders \ {a} : m \in adder[b]}
  /\ IF n \in names /\ Registered(n)
     THEN /\ Splice(n)
          /\ adder' = [adder EXCEPT ![a] = {n}]
          /\ UNCHANGED pushed
     ELSE Push(n) /\ UNCHANGED <<adder, fire>>

(* The old plugin's destroy() settles.                                     *)
Replace(a) ==
  \E n \in adder[a] :
    /\ Push(n)
    /\ adder' = [adder EXCEPT ![a] = {}]
    /\ UNCHANGED <<fire, doubled>>

RemovePlugin(n) ==
  /\ Registered(n)
  /\ Splice(n)
  /\ UNCHANGED <<pushed, adder, doubled>>

PluginsNext ==
  \/ \E f \in Fires : \/ \E kind \in FireKinds : FireHooks(f, kind)
                      \/ HookSettles(f) \/ RequestHookThrows(f)
  \/ \E a \in Adders : Replace(a) \/ \E n \in PluginNames : AddPlugin(a, n)
  \/ \E n \in PluginNames : RemovePlugin(n)

PluginsSpec == PluginsInit /\ [][PluginsNext]_pluginVars

----------------------------------------------------------------------------
(* Whatever is added and removed during a walk, it calls no registration   *)
(* twice, keeps the order, and passes over at most one plugin that stayed  *)
(* registered for each removal behind its iterator.  The names are exactly *)
(* those of the array, which holds each once, until two add() calls of one *)
(* name overlap: both then push.                                           *)
RegistryCoherent ==
  /\ \A f \in Fires :
       /\ \A i \in 1..(Len(fire[f].called) - 1) : fire[f].called[i] < fire[f].called[i + 1]
       /\ Cardinality(fire[f].missed) <= fire[f].shifts
  /\ doubled = {} =>
       /\ names = {plugins[i].name : i \in DOMAIN plugins}
       /\ \A i, j \in DOMAIN plugins : plugins[i].name = plugins[j].name => i = j
============================================================================
