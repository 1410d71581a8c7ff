----------------------------- MODULE ModuleLoader -----------------------------
(***************************************************************************)
(* Modules and their loaders (src/lh/os/module.c, src/lh/os/loader.c): a   *)
(* tree of images with a start and a stop method each.  A module may be    *)
(* granted a loader for children; its methods run in the middle of load    *)
(* and destroy, and may load and unload children and siblings there.  One  *)
(* thread, so the state is the tree and the stack of the calls that run.   *)
(*                                                                         *)
(* Every step of bring_up may fail.  A method uses the loader of its own   *)
(* module or its parent's; nobody unloads a module that is on the stack;   *)
(* and only a start method asks for a loader (module/fn.h:24), though the  *)
(* code would grant one to a stop method too.                              *)
(***************************************************************************)
EXTENDS Naturals, Sequences, SequencesExt, FiniteSets

CONSTANTS Modules,   \* memory for modules
          Root,      \* the program itself
          HasStop,   \* the modules whose method table has a stop method
          Null       \* no module

ASSUME ModuleLoaderAssumption ==
    Root \in Modules /\ Null \notin Modules /\ HasStop \subseteq Modules

VARIABLES
    alloc,     \* the modules that are not freed
    owner,     \* the module whose loader loaded each one
    image,     \* the modules whose image is open
    started,   \* the modules that are started
    loader,    \* the modules that were granted a loader
    kids,      \* the children each loader holds, in the order of loading
    stack,     \* the calls that run: what, for which module, and where they are
    life       \* history: what became of each module's start and stop

vars == <<alloc, owner, image, started, loader, kids, stack, life>>
tree == <<alloc, owner, image, loader, kids>>

Places == [load |-> {"open", "lookup", "start", "starting", "undo"},
           destroy |-> {"stop", "method", "stopping", "close"},
           revoke |-> {"loop"}, unload |-> {"loop"}, start |-> {"starting"}]

Call(op, m, at) == [op |-> op, mod |-> m, at |-> at]
Idle == stack = <<>>
Running(op, at) == ~ Idle /\ Last(stack).op = op /\ Last(stack).at = at
Mod == Last(stack).mod
GoTo(at) == stack' = Append(Front(stack), [Last(stack) EXCEPT !.at = at])
Return == stack' = Front(stack)

\* The root is bound to the executable and not yet started.
Init ==
    /\ alloc = {Root} /\ image = {Root} /\ started = {} /\ loader = {}
    /\ owner = [m \in Modules |-> Null]
    /\ kids = [m \in Modules |-> <<>>]
    /\ stack = <<>>
    /\ life = [m \in Modules |-> IF m = Root THEN "new" ELSE "none"]

------------------------------------------------------------------------------
(* Who may call: the program when nothing runs, or the method that runs.      *)

InStart == Running("load", "starting") \/ Running("start", "starting")

InMethod == InStart \/ Running("destroy", "stopping")

MayUse(p) ==
    /\ p \in loader
    /\ \/ Idle
       \/ InMethod /\ p \in {Mod, owner[Mod]}

OnStack(m) == \E i \in DOMAIN stack : stack[i].mod = m

\* lh_os_module_grant_loader.
GrantLoader(m) ==
    /\ \/ Idle /\ m \in image
       \/ InStart /\ m = Mod
    /\ m \notin loader
    /\ loader' = loader \cup {m}
    /\ UNCHANGED <<alloc, owner, image, started, kids, stack, life>>

\* lh_os_module_revoke_loader, called by the program or by a start method.
RevokeLoader(m) ==
    /\ MayUse(m) /\ m \in IF Idle THEN Modules ELSE {Mod}
    /\ stack' = Append(stack, Call("revoke", m, "loop"))
    /\ UNCHANGED <<tree, started, life>>

------------------------------------------------------------------------------
(* lh_os_loader_load and lh_os_loader_bring_up. *)

Load(p) ==
    /\ MayUse(p)
    /\ \E c \in Modules \ alloc :
          /\ alloc' = alloc \cup {c}
          /\ owner' = [owner EXCEPT ![c] = p]
          /\ life' = [life EXCEPT ![c] = "new"]
          /\ stack' = Append(stack, Call("load", c, "open"))
    /\ UNCHANGED <<image, started, loader, kids>>

\* The image opens, or does not.
LoadOpen ==
    /\ Running("load", "open")
    /\ \/ image' = image \cup {Mod} /\ GoTo("lookup")
       \/ image' = image /\ GoTo("undo")
    /\ UNCHANGED <<alloc, owner, loader, kids, started, life>>

\* The image exports a method table, or is a plain shared library.
LoadLookup ==
    /\ Running("load", "lookup")
    /\ GoTo("start") \/ GoTo("undo")
    /\ UNCHANGED <<tree, started, life>>

\* The child is kept and the load returns it.
Keep ==
    /\ kids' = [kids EXCEPT ![owner[Mod]] = Append(@, Mod)]
    /\ Return

Starts ==
    /\ started' = started \cup {Mod}
    /\ life' = [life EXCEPT ![Mod] = "up"]

\* lh_os_module_start: without a start method it is done.
LoadStart ==
    /\ Running("load", "start")
    /\ \/ GoTo("starting") /\ UNCHANGED <<kids, started, life>>
       \/ Starts /\ Keep
    /\ UNCHANGED <<alloc, owner, image, loader>>

StartReturns ==
    /\ Running("load", "starting")
    /\ Starts
    /\ Keep
    /\ UNCHANGED <<alloc, owner, image, loader>>

\* Revokes the loader of the module on top, if it has one, and goes to a place.
RevokeThen(at) ==
    stack' = Append(Front(stack), [Last(stack) EXCEPT !.at = at])
                \o (IF Mod \in loader THEN <<Call("revoke", Mod, "loop")>> ELSE <<>>)

\* A refused start may have been granted a loader and loaded children.
StartRefuses ==
    /\ Running("load", "starting")
    /\ life' = [life EXCEPT ![Mod] = "refused"]
    /\ RevokeThen("undo")
    /\ UNCHANGED <<tree, started>>

\* Mutant: the load fails and nothing is undone.
LoadUndoForgets ==
    /\ Running("load", "undo")
    /\ Return
    /\ UNCHANGED <<tree, started, life>>

\* bring_up failed: the child is destroyed and the load returns null.
LoadUndo ==
    /\ Running("load", "undo")
    /\ stack' = Append(Front(stack), Call("destroy", Mod, "stop"))
    /\ UNCHANGED <<tree, started, life>>

------------------------------------------------------------------------------
(* lh_os_module_destroy: deinit, close, stop, and the memory. *)

\* Mutant: the module's own stop runs before its children are unloaded.
DestroyStopEarly ==
    /\ Running("destroy", "stop")
    /\ IF Mod \in started THEN GoTo("stopping") ELSE RevokeThen("method")
    /\ UNCHANGED <<tree, started, life>>

\* lh_os_module_stop: the children first.
DestroyStop ==
    /\ Running("destroy", "stop")
    /\ RevokeThen("method")
    /\ UNCHANGED <<tree, started, life>>

\* The module is not started any more: its stop method ran, or was skipped.
Stopped(how) ==
    /\ started' = started \ {Mod}
    /\ life' = [life EXCEPT ![Mod] = IF @ = "up" THEN how ELSE @]
    /\ GoTo("close")

\* Mutant: the stop method is forgotten.
NoMethod == FALSE

\* The module was started and has a stop method.
MustStop == Mod \in started /\ Mod \in HasStop

DestroyMethod ==
    /\ Running("destroy", "method")
    /\ IF MustStop THEN GoTo("stopping") /\ UNCHANGED <<started, life>> ELSE Stopped("skipped")
    /\ UNCHANGED tree

StopReturns ==
    /\ Running("destroy", "stopping")
    /\ Stopped("stopped")
    /\ UNCHANGED tree

\* lh_os_shared_close, lh_os_shared_deinit and the memory.
DestroyClose ==
    /\ Running("destroy", "close")
    /\ image' = image \ {Mod}
    /\ alloc' = alloc \ {Mod}
    /\ owner' = [owner EXCEPT ![Mod] = Null]
    /\ life' = [life EXCEPT ![Mod] = IF @ = "up" THEN @ ELSE "none"]
    /\ Return
    /\ UNCHANGED <<started, loader, kids>>

------------------------------------------------------------------------------
(* Unloading. *)

\* lh_os_loader_unload.
Unload(p) ==
    /\ MayUse(p)
    /\ stack' = Append(stack, Call("unload", p, "loop"))
    /\ UNCHANGED <<tree, started, life>>

\* Where a child is in the list of a loader.
Index(p, c) == CHOOSE i \in DOMAIN kids[p] : kids[p][i] = c

\* lh_os_loader_unload_child.
UnloadChild(p, c) ==
    /\ MayUse(p) /\ Contains(kids[p], c) /\ ~ OnStack(c)
    /\ kids' = [kids EXCEPT ![p] = RemoveAt(@, Index(p, c))]
    /\ stack' = Append(stack, Call("destroy", c, "stop"))
    /\ UNCHANGED <<alloc, owner, image, loader, started, life>>

InLoop == Running("unload", "loop") \/ Running("revoke", "loop")

\* The last child is taken out of the list, then destroyed; its stop method may
\* load and unload siblings, so the list is read again every time.
UnloadNext ==
    /\ InLoop /\ kids[Mod] # <<>>
    /\ kids' = [kids EXCEPT ![Mod] = Front(@)]
    /\ stack' = Append(stack, Call("destroy", Last(kids[Mod]), "stop"))
    /\ UNCHANGED <<alloc, owner, image, loader, started, life>>

\* The list is empty; revoke goes on to free the loader.
UnloadEnd ==
    /\ InLoop /\ kids[Mod] = <<>>
    /\ loader' = IF Last(stack).op = "revoke" THEN loader \ {Mod} ELSE loader
    /\ Return
    /\ UNCHANGED <<alloc, owner, image, kids, started, life>>

------------------------------------------------------------------------------
(* The root. *)

RootDeinit ==
    /\ Idle /\ Root \in alloc
    /\ stack' = <<Call("destroy", Root, "stop")>>
    /\ UNCHANGED <<tree, started, life>>

\* lh_os_module_init, bind_executable and set_ops.
RootInit ==
    /\ Idle /\ Root \notin alloc
    /\ alloc' = alloc \cup {Root} /\ image' = image \cup {Root}
    /\ life' = [life EXCEPT ![Root] = "new"]
    /\ UNCHANGED <<owner, loader, kids, stack, started>>

\* lh_os_module_start, by the program: again when it refused before.
RootStart ==
    /\ Idle /\ Root \in image \ started
    /\ stack' = <<Call("start", Root, "starting")>>
    /\ UNCHANGED <<tree, started, life>>

\* Its start method succeeds, or there is none.
RootStarts ==
    /\ Running("start", "starting")
    /\ Starts
    /\ Return
    /\ UNCHANGED tree

\* The root stays in memory and bound, without a loader.
RootRefuses ==
    /\ Running("start", "starting")
    /\ life' = [life EXCEPT ![Mod] = "refused"]
    /\ stack' = IF Mod \in loader THEN <<Call("revoke", Mod, "loop")>> ELSE <<>>
    /\ UNCHANGED <<tree, started>>

------------------------------------------------------------------------------

Next ==
    \/ \E m \in Modules :
          \/ GrantLoader(m)
          \/ RevokeLoader(m)
          \/ Load(m)
          \/ Unload(m)
          \/ \E c \in Modules : UnloadChild(m, c)
    \/ LoadOpen
    \/ LoadLookup
    \/ LoadStart
    \/ StartReturns
    \/ StartRefuses
    \/ LoadUndo
    \/ DestroyStop
    \/ DestroyMethod
    \/ StopReturns
    \/ DestroyClose
    \/ UnloadNext
    \/ UnloadEnd
    \/ RootDeinit
    \/ RootInit
    \/ RootStart
    \/ RootStarts
    \/ RootRefuses

Spec == Init /\ [][Next]_vars

------------------------------------------------------------------------------
(* Properties. *)

\* Types of the tree and of the calls that run, which are for modules in memory.
TypeOK ==
    /\ alloc \subseteq Modules /\ image \subseteq alloc /\ started \subseteq alloc
    /\ loader \subseteq alloc
    /\ owner \in [Modules -> Modules \cup {Null}]
    /\ kids \in [Modules -> Seq(Modules)]
    /\ life \in [Modules -> {"none", "new", "refused", "up", "stopped", "skipped"}]
    /\ \A i \in DOMAIN stack : stack[i].mod \in alloc /\ stack[i].at \in Places[stack[i].op]

At(m, places) == \E i \in DOMAIN stack : stack[i].mod = m /\ stack[i].at \in places

\* What a module may use is there as long as it is: its parent is not freed, its
\* loader exists, its image is mapped and its own stop has not begun, through
\* every failed load, refused start and nested unload ("children go before their
\* parent"); and a method only runs in an image that is mapped.
ProvidersAlive ==
    /\ \A c \in alloc \ {Root} :
          /\ owner[c] \in loader \cap image
          /\ ~ At(owner[c], {"stopping", "close"})
    /\ \A m \in alloc : At(m, {"starting", "stopping"}) => m \in image

\* Stop answers start: the stop method runs only for a module whose start
\* succeeded, runs before the image is closed, and runs once; it is skipped only
\* where there is none, and a module that refused to start is never stopped
\* (module.c:192-225, module/fn.h:26).
StopAnswersStart ==
    \A m \in Modules :
        /\ At(m, {"stopping"}) => life[m] = "up"
        /\ At(m, {"close"}) => life[m] # "up"
        /\ life[m] = "skipped" => m \notin HasStop
        /\ m \notin alloc => life[m] = "none"
        /\ m \in started <=> life[m] = "up"

\* Nothing is kept of a load that failed and nothing of an unload is lost: every
\* module is in the list of its loader or in the hands of exactly one load or
\* destroy that runs, never both, so when all calls have returned the tree is
\* all there is.
Accounted ==
    \A m \in Modules \ {Root} :
        LET lists == {p \in Modules : Contains(kids[p], m)}
            calls == {i \in DOMAIN stack : stack[i].mod = m /\ stack[i].op \in {"load", "destroy"}}
        IN  /\ Cardinality(lists) + Cardinality(calls) = IF m \in alloc THEN 1 ELSE 0
            /\ lists \subseteq {owner[m]}

\* The tree is whole after every step of every load and unload, failed, refused or
\* nested (loader.c:65-152, module.c:158-277).
TreeSound == TypeOK /\ Accounted
==============================================================================
