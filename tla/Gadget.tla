------------------------------- MODULE Gadget -------------------------------
(***************************************************************************)
(* The USB gadget in configfs (src/USBGadget.cpp, and how main uses it     *)
(* when it starts).  The tree outlives the process: nothing tears it down  *)
(* at exit, so that every start finds what the last process left, and that *)
(* may have died between any two system calls.                             *)
(*                                                                         *)
(* create and destroy are sequences of system calls; a call here is one of *)
(* them, or a group of attribute writes to one directory.  What the kernel *)
(* permits and does is external (libcomposite and configfs).  Attributes   *)
(* go through an ofstream, whose buffer is written when it is destroyed,   *)
(* after the last look at its state: a write(2) the kernel refuses is      *)
(* noticed by nobody.  An empty string is no write(2) at all, so that      *)
(* destroy does not unbind at UDC; unlinking a function does.              *)
(***************************************************************************)
EXTENDS Integers, Sequences

CONSTANTS
  MaxFaults,    \* bound: system calls that fail without a reason in the tree
  MaxExits      \* bound: how often a process dies or exits in the middle

ASSUME BoundAssumption == MaxFaults \in Nat /\ MaxExits \in Nat

VARIABLES
  tree,      \* the gadget's directories, links and attributes in configfs
  phase,     \* of main: where the calls in todo come from
  todo,      \* the system calls left in this phase
  noOutWanted,   \* DS5_HID_NO_OUT_ENDPOINT of this process
  faults, exits,
  missed     \* history: calls of this process that failed unnoticed

vars == <<tree, phase, todo, noOutWanted, faults, exits, missed>>

-----------------------------------------------------------------------------
(* The tree and the system calls.                                          *)

Functions == {"hid", "uac"}
Dirs      == {"root", "strings", "config"} \cup Functions

\* Groups of attributes; "desc" is the report descriptor of the HID function.
Attributes == Dirs \cup {"desc"}
DirOf(attribute) == IF attribute = "desc" THEN "hid" ELSE attribute

Call(op, on) == [op |-> op, on |-> on]

NoGadget == [dirs |-> {}, links |-> {}, set |-> {}, noOut |-> FALSE,
             bound |-> FALSE]

\* What the kernel demands of the tree t: a directory is removed only if it is
\* empty and nothing links to it, a function in use takes no attributes, and a
\* gadget without functions cannot be bound.
Permitted(c, t) ==
  CASE c.op = "clearUdc" -> TRUE
    [] c.op = "mkdir"  -> c.on = "root" \/ "root" \in t.dirs
    [] c.op = "write"  -> DirOf(c.on) \in t.dirs \ t.links
    [] c.op = "link"   -> ~t.bound /\ {c.on, "config"} \subseteq t.dirs
                          /\ c.on \notin t.links
    [] c.op = "bind"   -> "root" \in t.dirs /\ ~t.bound /\ t.links # {}
    [] c.op = "unlink" -> c.on \in t.links
    [] c.op = "rmdir"  -> /\ c.on \in t.dirs \ t.links
                          /\ c.on = "config" => t.links = {}
                          /\ c.on = "root" => t.dirs = {"root"}

\* What the call does.  An unlink forces an unbind.
Effect(c, t) ==
  CASE c.op = "clearUdc" -> t
    [] c.op = "mkdir"  -> [t EXCEPT !.dirs = @ \cup {c.on}]
    [] c.op = "write"  -> [t EXCEPT !.set = @ \cup {c.on},
                             !.noOut = IF c.on = "hid" THEN noOutWanted ELSE @]
    [] c.op = "link"   -> [t EXCEPT !.links = @ \cup {c.on}]
    [] c.op = "bind"   -> [t EXCEPT !.bound = TRUE]
    [] c.op = "unlink" -> [t EXCEPT !.links = @ \ {c.on}, !.bound = FALSE]
    [] c.op = "rmdir"  -> [t EXCEPT !.dirs = @ \ {c.on},
                             !.set = {a \in @ : DirOf(a) # c.on}]

\* Mutant: the audio function's link is forgotten.
TeardownKeepsLink ==
  <<Call("clearUdc", "root"), Call("unlink", "hid"), Call("rmdir", "hid"),
    Call("rmdir", "uac"), Call("rmdir", "config"), Call("rmdir", "strings"),
    Call("rmdir", "root")>>

\* destroy.
Teardown ==
  <<Call("clearUdc", "root"), Call("unlink", "hid"), Call("unlink", "uac"),
    Call("rmdir", "hid"), Call("rmdir", "uac"), Call("rmdir", "config"),
    Call("rmdir", "strings"), Call("rmdir", "root")>>

\* create's calls, from its first make_dir on: the gadget and its config, ...
MakeGadget ==
  <<Call("mkdir", "root"), Call("write", "root"),
    Call("mkdir", "strings"), Call("write", "strings"),
    Call("mkdir", "config"), Call("write", "config")>>

\* Mutant: a directory that destroy does not know.
MakeFunctionsBeside ==
  <<Call("mkdir", "uac1"), Call("mkdir", "uac"), Call("write", "uac"),
    Call("mkdir", "hid"), Call("write", "hid"), Call("write", "desc")>>

\* ... the functions, ...
MakeFunctions ==
  <<Call("mkdir", "uac"), Call("write", "uac"),
    Call("mkdir", "hid"), Call("write", "hid"), Call("write", "desc")>>

\* Mutant: the gadget is bound before its last function is linked.
BindTooEarly ==
  <<Call("link", "hid"), Call("bind", "root"), Call("link", "uac")>>

\* ... and what shows them to the host.
LinkAndBind ==
  <<Call("link", "hid"), Call("link", "uac"), Call("bind", "root")>>

Construction == MakeGadget \o MakeFunctions \o LinkAndBind

\* exists: the audio function is linked and UDC is not empty.
Exists(t) == "uac" \in t.links /\ t.bound

-----------------------------------------------------------------------------
(* The system calls of a phase, one after the other.                       *)

Clearing == {"clearOld", "clear", "clearAgain", "undo"}

Works ==
  /\ todo # <<>> /\ Permitted(Head(todo), tree)
  /\ tree' = Effect(Head(todo), tree)
  /\ todo' = Tail(todo)
  /\ UNCHANGED <<phase, noOutWanted, faults, exits, missed>>

\* A call that the tree permits may fail all the same.
Fails(c) ==
  /\ Permitted(c, tree) => faults < MaxFaults
  /\ faults' = IF Permitted(c, tree) THEN faults + 1 ELSE faults
  /\ UNCHANGED tree

\* Nothing checks that the call has worked: destroy ignores its failures, and
\* write_file does not see those of write(2).
FailsUnnoticed ==
  /\ todo # <<>> /\ Fails(Head(todo))
  /\ phase \in Clearing \/ Head(todo).op \in {"write", "bind"}
  /\ missed' = IF Permitted(Head(todo), tree)
               THEN missed \cup {Head(todo)} ELSE missed
  /\ todo' = Tail(todo)
  /\ UNCHANGED <<phase, noOutWanted, exits>>

\* The process ends; the tree stays.
Ends ==
  /\ phase' = "down" /\ todo' = <<>> /\ missed' = {}
  /\ UNCHANGED noOutWanted

\* create sees a failed mkdir or symlink, or a file it cannot open, and main
\* returns.
CreateFails ==
  /\ phase = "build" /\ todo # <<>> /\ Head(todo).op # "bind"
  /\ Fails(Head(todo))
  /\ Ends
  /\ UNCHANGED exits

\* UDC cannot be opened, and create takes the gadget down again.
BindFails ==
  /\ phase = "build" /\ todo # <<>> /\ Head(todo).op = "bind"
  /\ Fails(Head(todo))
  /\ phase' = "undo" /\ todo' = Teardown
  /\ UNCHANGED <<noOutWanted, exits, missed>>

-----------------------------------------------------------------------------
(* main and create, between the calls.                                     *)

Enter(next, calls) ==
  /\ phase' = next /\ todo' = calls
  /\ UNCHANGED <<tree, noOutWanted, faults, exits, missed>>

Leave(last) == phase = last /\ todo = <<>>

\* Mutant: main does not destroy the gadget it finds.
FirstLookKeeps == <<"check", <<>>>>

\* main's first look: a gadget that exists is destroyed.
FirstLook ==
  IF Exists(tree) THEN <<"clearOld", Teardown>> ELSE <<"check", <<>>>>

\* The service manager starts the process, in an environment of its own.
Start ==
  /\ phase = "down"
  /\ phase' = FirstLook[1] /\ todo' = FirstLook[2]
  /\ noOutWanted' \in BOOLEAN
  /\ UNCHANGED <<tree, faults, exits, missed>>

OldCleared == Leave("clearOld") /\ Enter("check", <<>>)

\* main's second look: what still exists is served.
Reuse  == Leave("check") /\ Exists(tree) /\ Enter("created", <<>>)
Create == Leave("check") /\ ~Exists(tree) /\ Enter("clear", Teardown)

FindUdc == Leave("clear") /\ Enter("clearAgain", Teardown)

NoUdc ==
  /\ Leave("clear") /\ faults < MaxFaults
  /\ faults' = faults + 1
  /\ Ends
  /\ UNCHANGED <<tree, exits>>

Build   == Leave("clearAgain") /\ Enter("build", Construction)
Created == Leave("build") /\ Enter("created", <<>>)

GivenUp == Leave("undo") /\ Ends /\ UNCHANGED <<tree, faults, exits>>

\* usb.init finds a HID node only while the gadget is bound.
Serve     == phase = "created" /\ tree.bound /\ Enter("serving", <<>>)
NoHidNode ==
  /\ phase = "created" /\ ~tree.bound
  /\ Ends
  /\ UNCHANGED <<tree, faults, exits>>

\* A crash, a kill, or an exit because another device has failed.
Exit ==
  /\ phase # "down" /\ exits < MaxExits
  /\ exits' = exits + 1
  /\ Ends
  /\ UNCHANGED <<tree, faults>>

-----------------------------------------------------------------------------

Init ==
  /\ tree = NoGadget
  /\ phase = "down" /\ todo = <<>>
  /\ noOutWanted = FALSE
  /\ faults = 0 /\ exits = 0 /\ missed = {}

Proceeds ==
  \/ Works \/ FailsUnnoticed \/ CreateFails \/ BindFails
  \/ Start \/ OldCleared \/ Reuse \/ Create \/ FindUdc \/ NoUdc
  \/ Build \/ Created \/ GivenUp \/ Serve \/ NoHidNode

Next == Proceeds \/ Exit

\* The process runs and the service manager restarts it.
Spec == Init /\ [][Next]_vars /\ WF_vars(Proceeds)

-----------------------------------------------------------------------------
(* Properties.                                                             *)

TypeOK ==
  /\ tree \in [dirs : SUBSET Dirs, links : SUBSET Functions,
               set : SUBSET Attributes, noOut : BOOLEAN, bound : BOOLEAN]
  /\ phase \in Clearing \cup {"down", "check", "build", "created", "serving"}
  /\ Len(todo) <= Len(Construction)
  /\ noOutWanted \in BOOLEAN
  /\ faults \in 0..MaxFaults /\ exits \in 0..MaxExits

\* Wherever processes die and whatever fails, the host never sees a gadget
\* with one of its two functions only.
HostSeesBothFunctions == tree.bound => tree.links = Functions

AsWanted ==
  tree.set = Attributes /\ tree.noOut = noOutWanted

\* Whatever earlier processes have left, the gadget a process serves has every
\* attribute, and the endpoints this process was asked for, unless the kernel
\* has refused a write, or both unlinks and with them every unbind.
ServesWhatWasAsked ==
  phase = "serving" =>
    \/ AsWanted
    \/ \E c \in missed : c.op = "write"
    \/ {Call("unlink", f) : f \in Functions} \subseteq missed

\* Once faults and exits are over, the gadget is up and served for good: what
\* a process has left half built stops none that comes after it.
EventuallyServed == <>[](phase = "serving" /\ tree.bound)
=============================================================================
