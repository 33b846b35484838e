----------------------------- MODULE DriverSetup -----------------------------
(***************************************************************************)
(* How the three drivers of the repository take what they need, one thing   *)
(* after the other, and give it back: the Linux driver (drm/main.c), the    *)
(* kernel half of the ported Haiku driver (haiku/kernel/main.c) and its     *)
(* accelerant (radeon_hd/accelerant.cpp and bios.cpp).  Every step may fail *)
(* and then undoes the ones before it; a card comes and goes while a kernel *)
(* driver is loaded.                                                       *)
(*                                                                         *)
(* One card at a time: the drivers keep what they know of it in globals.    *)
(***************************************************************************)
EXTENDS Integers, Sequences

VARIABLES
  driver,    (* which of the three                                         *)
  held,      (* what it has                                                *)
  state,     (* "out", "loading", "in", "failed", "unloading", "crashed"   *)
  todo,      (* what loading or unloading has still to do                  *)
  card,      (* "none", "probing", "bound", "removing"                     *)
  cardTodo   (* what probe or remove has still to do                       *)

setupVars == <<driver, held, state, todo, card, cardTodo>>

Drivers == {"drm", "kernel", "accelerant"}

(* A step takes r and on failure gives back undo; or goes on without r; or *)
(* uses r unchecked, so that failing to get it is the end of the program;  *)
(* or checks something else; or gives r back.                              *)
SetupStep(op, r, undo) == [op |-> op, what |-> r, undo |-> undo]
Take(r, undo) == SetupStep("take", r, undo)
Try(r)        == SetupStep("try", r, <<>>)
Must(r)       == SetupStep("must", r, <<>>)
Check(undo)   == SetupStep("check", "", undo)
Give(rs)      == [i \in DOMAIN rs |-> SetupStep("give", rs[i], <<>>)]

-----------------------------------------------------------------------------
(* The labels at the end of mydrm_init() and of both mydrm_pci_probe(): what *)
(* is undone from there on.                                                *)
err1 == <<"class">>
err2 == <<"region">> \o err1
err3 == <<"cdev">> \o err2

(* Mutant: the driver is registered, and may be given a card, first.        *)
kernel_init_early ==
  << Take("class", <<>>), Take("pci driver", err1), Take("region", err1), Take("cdev", err2) >>
kernel_init ==
  << Take("class", <<>>), Take("region", err1), Take("cdev", err2), Take("pci driver", err3) >>
kernel_exit   == Give(<<"pci driver", "cdev", "region", "class">>)
kernel_probe  == << Take("device", <<>>) >>
kernel_remove == Give(<<"device">>)

drm_init   == << Take("pci driver", <<>>) >>
drm_exit   == Give(<<"pci driver">>)

drm_err1 == <<"rom">>
drm_err2 == <<"mmio">> \o drm_err1
drm_err3 == <<"card info", "atom context">> \o drm_err2

(* atombios_init(): the structure with the card's functions is not given    *)
(* back when the BIOS cannot be parsed.  The index of indirect accesses is  *)
(* made by a successful parse, scratch memory is asked for.                *)
drm_probe ==
  << Take("rom", <<>>), Take("mmio", drm_err1), Take("card info", drm_err2),
     Take("atom context", drm_err2), Try("iio"), Try("scratch"),
     Check(drm_err3), Try("fb") >>

(* Mutant: the mapping of the frame buffer is forgotten. *)
drm_remove_fb == Give(<<"card info", "atom context", "mmio", "rom">>)
drm_remove    == Give(<<"fb", "card info", "atom context", "mmio", "rom">>)

(* init_common(): until the last step the two areas are given back by their *)
(* cloners' destructors, in the reverse order; gInfo was freed before.  The *)
(* blocks of the displays, connectors and pins are not given back.  The ROM *)
(* is looked at whether or not its area could be cloned.                   *)
(* Mutant: the register area is kept at once.                              *)
init_common_keeps ==
  << Take("gInfo", <<>>), Take("displays", <<>>), Take("connectors", <<>>), Take("pins", <<>>),
     Check(<<"gInfo">>), Take("shared area", <<"gInfo">>), Take("regs area", <<"gInfo">>),
     Must("rom area") >>
init_common ==
  << Take("gInfo", <<>>), Take("displays", <<>>), Take("connectors", <<>>), Take("pins", <<>>),
     Check(<<"gInfo">>), Take("shared area", <<"gInfo">>),
     Take("regs area", <<"gInfo", "shared area">>), Must("rom area") >>

(* Its result is ignored, and radeon_gpu_probe() uses the context.  Without *)
(* a semaphore for it nothing more is done here: see Fails.                *)
radeon_init_bios ==
  << Must("card info"), Must("atom context"), Try("iio"), Try("exec sem"), Try("scratch") >>

(* Without a connector it returns with everything it has. *)
radeon_init_accelerant ==
  init_common \o << Try("accelerant lock"), Try("engine lock") >> \o radeon_init_bios
    \o << Check(<<>>), Try("mode list area"), Try("ring queue") >>

uninit_common ==
  Give(<<"regs area", "shared area", "rom area", "gInfo", "displays", "connectors", "pins">>)
radeon_uninit_accelerant == Give(<<"accelerant lock", "engine lock">>) \o uninit_common

Load ==
  [drm |-> drm_init, kernel |-> kernel_init, accelerant |-> radeon_init_accelerant]
CardProbe  == [drm |-> drm_probe, kernel |-> kernel_probe, accelerant |-> <<>>]
CardRemove == [drm |-> drm_remove, kernel |-> kernel_remove, accelerant |-> <<>>]
Unload == [drm |-> drm_exit, kernel |-> kernel_exit, accelerant |-> radeon_uninit_accelerant]

-----------------------------------------------------------------------------
(* One step of a procedure: what is held after it, or what is left to do    *)
(* when it fails.                                                          *)
HeldAfter(s) ==
  CASE s.op = "give"  -> held \ {s.what}
    [] s.op = "check" -> held
    [] OTHER          -> held \cup {s.what}

Fails(s, rest, left) ==
  \/ s.op \in {"take", "check"} /\ left = Give(s.undo)
  \/ s.op = "try" /\ left = IF s.what = "exec sem" THEN Tail(rest) ELSE rest

SetupInit ==
  /\ driver \in Drivers /\ held = {} /\ state = "out" /\ todo = <<>>
  /\ card = "none" /\ cardTodo = <<>>

(* insmod, or the first call of the accelerant.  The library that holds it  *)
(* and its globals is loaded anew for another time.                        *)
Insmod ==
  /\ state = "out" /\ (driver = "accelerant" => held = {})
  /\ state' = "loading" /\ todo' = Load[driver]
  /\ UNCHANGED <<driver, held, card, cardTodo>>

(* rmmod *)
Rmmod ==
  /\ state = "in"
  /\ state' = "unloading" /\ todo' = Unload[driver]
  /\ UNCHANGED <<driver, held, card, cardTodo>>

(* pci_unregister_driver() first has a bound card removed and waits for it. *)
MayGo(s) == s.what = "pci driver" /\ s.op = "give" => card = "none"

Do ==
  /\ todo # <<>> /\ MayGo(Head(todo))
  /\ \/ held' = HeldAfter(Head(todo)) /\ todo' = Tail(todo) /\ UNCHANGED state
     \/ /\ Fails(Head(todo), Tail(todo), todo')
        /\ state' = IF Head(todo).op = "try" THEN state ELSE "failed"
        /\ UNCHANGED held
     \/ /\ Head(todo).op = "must" /\ state' = "crashed" /\ todo' = <<>>
        /\ UNCHANGED held
  /\ UNCHANGED <<driver, card, cardTodo>>

(* A procedure is over; a module that could not be loaded may be loaded     *)
(* again, an accelerant that could not be initialised is given up.         *)
Over ==
  /\ todo = <<>>
  /\ \/ state = "loading" /\ state' = "in"
     \/ state = "unloading" /\ state' = "out"
     \/ state = "failed" /\ driver # "accelerant" /\ state' = "out"
  /\ UNCHANGED <<driver, held, todo, card, cardTodo>>

(* The PCI core: a card is there, or comes, and is offered to the driver.   *)
Offered ==
  /\ "pci driver" \in held /\ card = "none"
  /\ card' = "probing" /\ cardTodo' = CardProbe[driver]
  /\ UNCHANGED <<driver, held, state, todo>>

(* It is pulled, or its driver is unregistered. *)
Removed ==
  /\ card = "bound"
  /\ card' = "removing" /\ cardTodo' = CardRemove[driver]
  /\ UNCHANGED <<driver, held, state, todo>>

DoCard ==
  /\ cardTodo # <<>>
  /\ \/ held' = HeldAfter(Head(cardTodo)) /\ cardTodo' = Tail(cardTodo) /\ UNCHANGED card
     \/ /\ Fails(Head(cardTodo), Tail(cardTodo), cardTodo')
        /\ card' = IF Head(cardTodo).op = "try" THEN card ELSE "removing"
        /\ UNCHANGED held
  /\ UNCHANGED <<driver, state, todo>>

OverCard ==
  /\ card \in {"probing", "removing"} /\ cardTodo = <<>>
  /\ card' = IF card = "probing" THEN "bound" ELSE "none"
  /\ UNCHANGED <<driver, held, state, todo, cardTodo>>

(* A crash, and an accelerant that has failed or was closed, is the end. *)
Ended ==
  /\ todo = <<>>
  /\ \/ state = "crashed"
     \/ driver = "accelerant" /\ (state = "failed" \/ (state = "out" /\ held # {}))
  /\ UNCHANGED setupVars

SetupNext == Insmod \/ Rmmod \/ Do \/ Over \/ Offered \/ Removed \/ DoCard \/ OverCard \/ Ended
SetupSpec == SetupInit /\ [][SetupNext]_setupVars

-----------------------------------------------------------------------------
Resources ==
  {"class", "region", "cdev", "pci driver", "device", "rom", "mmio", "fb", "card info",
   "atom context", "iio", "scratch", "gInfo", "displays", "connectors", "pins", "shared area",
   "regs area", "rom area", "accelerant lock", "engine lock", "exec sem", "mode list area",
   "ring queue"}

SetupTypeOK ==
  /\ driver \in Drivers /\ held \subseteq Resources
  /\ state \in {"out", "loading", "in", "failed", "unloading", "crashed"}
  /\ card \in {"none", "probing", "bound", "removing"}
  /\ \A q \in {todo, cardTodo} : \A i \in DOMAIN q :
       q[i].what \in Resources \cup {""} /\ q[i].op \in {"take", "try", "must", "check", "give"}

(* What the drivers never give back: the interpreter's allocations (there  *)
(* is an atom_destroy(), which nobody calls), the structure with the card's *)
(* functions when the BIOS is refused, the accelerant's ring and mode list. *)
Leaked ==
  [drm |-> {"card info", "iio", "scratch"}, kernel |-> {},
   accelerant |-> {"card info", "atom context", "iio", "scratch", "exec sem", "ring queue",
                   "mode list area"}]

(* Apart from that a driver that is not loaded has nothing, and one that is *)
(* loaded without a card nothing of a card; an accelerant whose common part *)
(* could not be set up leaves no area behind.                              *)
NothingKept ==
  /\ state = "out" => held \subseteq Leaked[driver]
  /\ state = "in" /\ card = "none" /\ driver # "accelerant" =>
       held \subseteq Leaked[driver] \cup {"class", "region", "cdev", "pci driver"}
  /\ state = "failed" /\ todo = <<>> /\ driver = "accelerant" =>
       {"gInfo", "shared area", "regs area", "rom area"} \subseteq held
         \/ held \cap {"shared area", "regs area", "rom area"} = {}

(* Nothing is given back that the driver does not have; an unmapped frame   *)
(* buffer and a missing lock are told by their null value.                 *)
GivesWhatItHas ==
  \A q \in {todo, cardTodo} :
    q # <<>> /\ Head(q).op = "give" =>
      Head(q).what \in held \cup {"fb", "accelerant lock", "engine lock"}

(* What a resource rests on outlives it: a device node its class, number    *)
(* and operations, the parsed BIOS the image and the registers, and a lock  *)
(* the shared memory it lies in.                                           *)
RestsOn(d, r) ==
  CASE r = "device"                              -> {"class", "region", "cdev", "pci driver"}
    [] r = "pci driver" /\ d = "kernel"          -> {"class", "region", "cdev"}
    [] r = "atom context" /\ d = "drm"           -> {"rom", "mmio"}
    [] r \in {"engine lock", "accelerant lock"}  -> {"shared area"}
    [] r = "fb"                                  -> {"mmio", "rom"}
    [] OTHER                                     -> {}

RestsOnHeld == \A r \in held : RestsOn(driver, r) \subseteq held

(* After any failure nothing is kept that should have been given back, and  *)
(* nothing is given back twice or before what rests on it.                 *)
DriverInv == SetupTypeOK /\ NothingKept /\ GivesWhatItHas /\ RestsOnHeld
=============================================================================
