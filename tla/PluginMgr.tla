------------------------------- MODULE PluginMgr -------------------------------
(* The plugin manager (plugin_mgr.cpp): libraries are found in the files of   *)
(* the search paths, kept in a cache and loaded when an instance needs them;  *)
(* instances hold counted references.  Files may change in between.          *)
EXTENDS Naturals, Sequences, FiniteSets, SequencesExt

CONSTANTS Libs,         \* what a file may be: [type, name, info, symbols, version]
          Version,      \* of the collector, a sequence of numbers
          NFiles,       \* files, in the order of the search
          NRefs, MaxChanges, MaxGets    \* bounds: references, changes of files, calls
File == 1 .. NFiles
Ref == 1 .. NRefs

VARIABLES
    disk,           \* what every file is
    pluginCache,    \* sequence of [type, name, file]
    loaded,         \* sequence of plugins [id, type, name, file, refs, unload]
    unload,         \* of the plugins that are loaded from now on
    held,           \* the plugin of every reference, 0: there is no reference
    wanted,         \* and what was asked for
    opened,         \* libraries open now, by dlopen() and dlclose()
    stays,           \* and those left open on purpose
    gets, changes,  \* calls and changes of files so far
    shown,          \* of every type, what plugin_list() has printed
    mgrPc           \* "up", in plugin_list() and behind it, or "gone"
mgrVars == <<disk, pluginCache, loaded, unload, held, wanted, opened, stays, gets, changes, shown, mgrPc>>

Nothing == [type |-> "none", name |-> 0]
PluginType == {"input", "intermediate", "output"}
Init ==
    /\ disk \in [File -> Libs] /\ pluginCache = <<>> /\ loaded = <<>> /\ unload = TRUE
    /\ held = [r \in Ref |-> 0] /\ wanted = [r \in Ref |-> Nothing]
    /\ opened = [f \in File |-> 0] /\ stays = [f \in File |-> 0]
    /\ gets = 0 /\ changes = 0 /\ shown = [t \in PluginType |-> <<>>] /\ mgrPc = "up"

libVars == <<disk, changes, shown>>
fixed == <<libVars, mgrPc>>

-----------------------------------------------------------------------------
\* The description alone decides what comes into the cache.
Describes(f) == disk[f].info /\ disk[f].type \in PluginType
Entry(f) == [type |-> disk[f].type, name |-> disk[f].name, file |-> f]
Reloaded ==
    LET found == SelectSeq([f \in File |-> f], LAMBDA f : Describes(f))
    IN [n \in DOMAIN found |-> Entry(found[n])]
Is(entry, type, name) == entry.type = type /\ entry.name = name
InCache(cached, type, name) == SelectInSeq(cached, LAMBDA e : Is(e, type, name))

\* The version a plugin requires: of this major one and not newer.
version_check(required) ==
    /\ required # <<>> /\ required[1] = Version[1]
    /\ ~ \E i \in DOMAIN Version :
            Version[i] < required[i] /\ \A j \in 1 .. i - 1 : Version[j] = required[j]

\* The library is opened, asked whether to bind deeply, closed and opened.
Loads(f) == Describes(f) /\ disk[f].symbols /\ version_check(disk[f].version)
MUT_Matches(f, type, name) == TRUE
Matches(f, type, name) == Is(disk[f], type, name)

Acquire(r, n, type, name) ==
    /\ held' = [held EXCEPT ![r] = n] /\ wanted' = [wanted EXCEPT ![r] = [type |-> type, name |-> name]]
Closed(plugins) ==
    /\ opened' = [f \in File |-> opened[f] - Cardinality({p \in plugins : p.file = f /\ p.unload})]
    /\ stays' = [f \in File |-> stays[f] + Cardinality({p \in plugins : p.file = f /\ ~p.unload})]

\* The plugin that was found in the cache may have become another one, which
\* is deleted again; the cache is kept.
plugin_get(r, type, name) ==
    LET have == {n \in DOMAIN loaded : Is(loaded[n], type, name)}
        cached == IF pluginCache = <<>> THEN Reloaded ELSE pluginCache
        file == InCache(cached, type, name)
        f == cached[file].file
    IN /\ mgrPc = "up" /\ held[r] = 0 /\ gets < MaxGets /\ gets' = gets + 1 /\ UNCHANGED <<fixed, unload>>
       /\ IF have # {}
          THEN LET n == CHOOSE n \in have : TRUE
               IN /\ loaded' = [loaded EXCEPT ![n].refs = @ + 1]
                  /\ Acquire(r, loaded[n].id, type, name) /\ UNCHANGED <<pluginCache, opened, stays>>
          ELSE /\ pluginCache' = cached
               /\ IF file # 0 /\ Loads(f) /\ Matches(f, type, name)
                  THEN /\ loaded' = Append(loaded, [id |-> gets', type |-> disk[f].type, name |-> disk[f].name,
                                                    file |-> f, refs |-> 1, unload |-> unload])
                       /\ opened' = [opened EXCEPT ![f] = @ + 1]
                       /\ Acquire(r, gets', type, name) /\ UNCHANGED stays
                  ELSE /\ IF file # 0 /\ Loads(f) /\ ~unload
                          THEN opened' = [opened EXCEPT ![f] = @ + 1] /\ stays' = [stays EXCEPT ![f] = @ + 1]
                          ELSE UNCHANGED <<opened, stays>>
                       /\ UNCHANGED <<loaded, held, wanted>>

Place(id) == CHOOSE n \in DOMAIN loaded : loaded[n].id = id
Counted(plus, minus) ==
    [n \in DOMAIN loaded |-> [loaded[n] EXCEPT
        !.refs = (@ + (IF loaded[n].id = plus THEN 1 ELSE 0)) - (IF loaded[n].id = minus THEN 1 ELSE 0)]]
ref_copy(r, s) ==
    /\ held[r] = 0 /\ held[s] # 0 /\ loaded' = Counted(held[s], 0)
    /\ Acquire(r, held[s], wanted[s].type, wanted[s].name)
    /\ UNCHANGED <<fixed, pluginCache, unload, opened, stays, gets>>
MUT_ref_assign(r, s) ==
    /\ r # s /\ held[r] # 0 /\ held[s] # 0 /\ loaded' = Counted(held[s], 0)
    /\ Acquire(r, held[s], wanted[s].type, wanted[s].name)
    /\ UNCHANGED <<fixed, pluginCache, unload, opened, stays, gets>>
ref_assign(r, s) ==
    /\ r # s /\ held[r] # 0 /\ held[s] # 0 /\ loaded' = Counted(held[s], held[r])
    /\ Acquire(r, held[s], wanted[s].type, wanted[s].name)
    /\ UNCHANGED <<fixed, pluginCache, unload, opened, stays, gets>>
ref_destroy(r) ==
    /\ held[r] # 0 /\ loaded' = Counted(0, held[r])
    /\ held' = [held EXCEPT ![r] = 0] /\ wanted' = [wanted EXCEPT ![r] = Nothing]
    /\ UNCHANGED <<fixed, pluginCache, unload, opened, stays, gets>>

plugin_unload_unused ==
    /\ mgrPc = "up" /\ \E p \in ToSet(loaded) : p.refs = 0
    /\ loaded' = SelectSeq(loaded, LAMBDA p : p.refs # 0)
    /\ Closed({p \in ToSet(loaded) : p.refs = 0})
    /\ UNCHANGED <<fixed, pluginCache, unload, held, wanted, gets>>
auto_unload(enabled) ==
    /\ mgrPc = "up" /\ unload' = enabled
    /\ loaded' = [n \in DOMAIN loaded |-> [loaded[n] EXCEPT !.unload = enabled]]
    /\ UNCHANGED <<fixed, pluginCache, held, wanted, opened, stays, gets>>
cache_invalidate ==
    /\ mgrPc = "up" /\ pluginCache' = <<>>
    /\ UNCHANGED <<fixed, loaded, unload, held, wanted, opened, stays, gets>>

\* The cache is read again, then the files; the first of a type and a name
\* is taken; one that has changed its type is skipped, then a version that is
\* none ends it all with an exception.
plugin_list ==
    /\ mgrPc = "up" /\ pluginCache' = Reloaded /\ mgrPc' = "list"
    /\ UNCHANGED <<libVars, loaded, unload, held, wanted, opened, stays, gets>>
Usable(type) ==
    SelectSeq(pluginCache, LAMBDA e : Describes(e.file) /\ e.type = type /\ disk[e.file].type = type)
MUT_FirstOfName(es) == es
FirstOfName(es) ==
    LET first == {n \in DOMAIN es : \A m \in 1 .. n - 1 : es[m].name # es[n].name}
    IN [k \in 1 .. Cardinality(first) |->
            es[CHOOSE n \in first : Cardinality({m \in first : m < n}) = k - 1]]
plugin_list_print ==
    /\ mgrPc = "list" /\ mgrPc' = "listed"
    /\ shown' = IF \E t \in PluginType : \E e \in ToSet(Usable(t)) : disk[e.file].version = <<>>
                THEN shown
                ELSE [t \in PluginType |-> SortSeq(FirstOfName(Usable(t)), LAMBDA a, b : a.name < b.name)]
    /\ UNCHANGED <<disk, changes, pluginCache, loaded, unload, held, wanted, opened, stays, gets>>

Change ==
    /\ changes < MaxChanges /\ changes' = changes + 1
    /\ \E f \in File, lib \in Libs : lib # disk[f] /\ disk' = [disk EXCEPT ![f] = lib]
    /\ UNCHANGED <<pluginCache, loaded, unload, held, wanted, opened, stays, gets, shown, mgrPc>>

\* The instances, which hold the references, are destroyed before.
destroy ==
    /\ mgrPc \in {"up", "listed"} /\ (\A r \in Ref : held[r] = 0) /\ mgrPc' = "gone"
    /\ loaded' = <<>> /\ Closed(ToSet(loaded))
    /\ UNCHANGED <<libVars, pluginCache, unload, held, wanted, gets>>
Gone == mgrPc = "gone" /\ UNCHANGED mgrVars

Types == {lib.type : lib \in Libs}
Names == {lib.name : lib \in Libs}
Next ==
    \/ \E r \in Ref, type \in Types, name \in Names : plugin_get(r, type, name)
    \/ \E r, s \in Ref : ref_copy(r, s) \/ ref_assign(r, s)
    \/ \E r \in Ref : ref_destroy(r)
    \/ plugin_unload_unused \/ cache_invalidate \/ plugin_list \/ plugin_list_print \/ Change \/ destroy \/ Gone
    \/ \E enabled \in BOOLEAN : auto_unload(enabled)
Spec == Init /\ [][Next]_mgrVars

-----------------------------------------------------------------------------
(* A reference is to a plugin that is loaded, counts it, and is of the type  *)
(* and the name that was asked for, whatever the files have become; a plugin *)
(* is loaded once; its library is open as long as it is, and when all are    *)
(* gone only what was to be stays is open (plugin_mgr.cpp).                   *)
PluginsStay ==
    /\ \A r \in Ref : held[r] # 0 =>
          \E n \in DOMAIN loaded : loaded[n].id = held[r] /\ Is(loaded[n], wanted[r].type, wanted[r].name)
    /\ \A n \in DOMAIN loaded :
          /\ loaded[n].refs = Cardinality({r \in Ref : held[r] = loaded[n].id})
          /\ \A m \in DOMAIN loaded : m # n => ~Is(loaded[m], loaded[n].type, loaded[n].name)
    /\ \A f \in File : opened[f] = stays[f] + Len(SelectSeq(loaded, LAMBDA p : p.file = f))

(* What the list shows of a type is in order, each name once, and it is what *)
(* an instance would get by that name, unless the files change (plugin_list).*)
ListsWhatIsLoaded ==
    \A t \in PluginType : \A n \in DOMAIN shown[t] :
        /\ n > 1 => shown[t][n - 1].name < shown[t][n].name
        /\ changes = 0 /\ mgrPc = "listed" => shown[t][n] = pluginCache[InCache(pluginCache, t, shown[t][n].name)]
=============================================================================
