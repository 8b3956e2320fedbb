------------------------------- MODULE IrqLoad -------------------------------
(***************************************************************************)
(* Loading and unloading smi_irq: smi_interrupt_init, which acquires six   *)
(* resources in turn and backs out when one is refused, and                *)
(* smi_interrupt_exit.  A client may open the device once device_create    *)
(* has made it, and the kernel unloads no module that is in use.           *)
(***************************************************************************)
EXTENDS Integers

CONSTANTS Openers,  \* processes that open the device
          MaxLoads  \* bound on the loads of a behaviour
ASSUME LoadConstants == MaxLoads \in Nat

Resources == {"ioremap", "region", "cdev", "class", "device", "irq"}
InExit    == {"free_irq", "device_destroy", "cdev_del"}

VARIABLES step,    \* "out", "in", or the next call of init or exit
          held,    \* resources held
          open,    \* clients that have the device open
          loads,
          refused, \* history: a load was refused its interrupt
          stray    \* history: something was released that was not held

loadVars == <<step, held, open, loads, refused, stray>>

LoadInit ==
    /\ step = "out" /\ held = {} /\ open = {} /\ loads = 0
    /\ refused = FALSE /\ stray = FALSE

Release(r) == held' = held \ r /\ stray' = (stray \/ ~(r \subseteq held))

-----------------------------------------------------------------------------
(* smi_interrupt_init *)

insmod ==
    /\ step = "out" /\ loads < MaxLoads /\ loads' = loads + 1 /\ step' = "ioremap"
    /\ UNCHANGED <<held, open, refused, stray>>

\* Seeded bugs: when device_create is refused the class is kept, or the device that
\* is not there is destroyed too.
Undone_KeepsClass(r) ==
    CASE r \in {"ioremap", "region"} -> {} [] r = "cdev" -> {"region"}
      [] r \in {"class", "device"} -> {"cdev", "region"}
Undone_Device(r) ==
    CASE r \in {"ioremap", "region"} -> {} [] r = "cdev" -> {"region"}
      [] r = "class" -> {"cdev", "region"} [] r = "device" -> {"device", "class", "cdev", "region"}

\* What is given back when r is refused: never the mapping.
Undone(r) ==
    CASE r \in {"ioremap", "region"} -> {} [] r = "cdev" -> {"region"}
      [] r = "class" -> {"cdev", "region"} [] r = "device" -> {"class", "cdev", "region"}

After(r) == CASE r = "ioremap" -> "region" [] r = "region" -> "cdev" [] r = "cdev" -> "class"
              [] r = "class" -> "device" [] r = "device" -> "irq" [] r = "irq" -> "in"

\* Each call succeeds, or is refused; what request_irq says is not looked at.
smi_interrupt_init ==
    /\ step \in Resources
    /\ \/ /\ held' = held \cup {step} /\ step' = After(step) /\ UNCHANGED <<refused, stray>>
       \/ /\ step = "irq" /\ step' = "in" /\ refused' = TRUE /\ UNCHANGED <<held, stray>>
       \/ /\ step # "irq" /\ step' = "out" /\ Release(Undone(step)) /\ refused' = refused
    /\ UNCHANGED <<open, loads>>

-----------------------------------------------------------------------------
(* Openers, and smi_interrupt_exit *)

open_device(c) ==
    /\ step \in {"irq", "in"} /\ c \notin open /\ open' = open \cup {c}
    /\ UNCHANGED <<step, held, loads, refused, stray>>

close_device(c) ==
    /\ c \in open /\ open' = open \ {c}
    /\ UNCHANGED <<step, held, loads, refused, stray>>

rmmod ==
    /\ step = "in" /\ open = {} /\ step' = "free_irq"
    /\ UNCHANGED <<held, open, loads, refused, stray>>

\* Seeded bug: the interrupt is freed last.
smi_interrupt_exit_IrqLast ==
    /\ \/ step = "free_irq" /\ step' = "device_destroy" /\ Release({"device", "class"})
       \/ step = "device_destroy" /\ step' = "cdev_del" /\ Release({"cdev", "region"})
       \/ step = "cdev_del" /\ step' = "out" /\ Release({"irq"})
    /\ UNCHANGED <<open, loads, refused>>

smi_interrupt_exit ==
    /\ \/ step = "free_irq" /\ step' = "device_destroy" /\ Release({"irq"})
       \/ step = "device_destroy" /\ step' = "cdev_del" /\ Release({"device", "class"})
       \/ step = "cdev_del" /\ step' = "out" /\ Release({"cdev", "region"})
    /\ UNCHANGED <<open, loads, refused>>

LoadNext ==
    \/ insmod \/ smi_interrupt_init \/ rmmod \/ smi_interrupt_exit
    \/ \E c \in Openers : open_device(c) \/ close_device(c)

LoadSpec == LoadInit /\ [][LoadNext]_loadVars

-----------------------------------------------------------------------------
(* Properties *)

LoadTypeOK ==
    /\ step \in Resources \cup InExit \cup {"out", "in"} /\ held \subseteq Resources
    /\ open \subseteq Openers /\ loads \in 0..MaxLoads /\ {refused, stray} \subseteq BOOLEAN

\* smi_interrupt_init, smi_interrupt_exit: whichever call was refused, a module that
\* is not loaded holds nothing, and a next load finds nothing in its way.  (Nothing but
\* the mapping of the registers, which no path undoes.)
NothingHeldWhenOut == step = "out" => held \subseteq {"ioremap"} /\ open = {}

\* No path releases what its load did not acquire, except that smi_interrupt_exit frees
\* the interrupt of a load whose request_irq was refused.
ReleasesWhatIsHeld == stray => refused

\* smi_interrupt_exit: while smi_handler can be called, the registers it reads and the
\* device whose clients it wakes are there; the device is there for as long as a client
\* has it open.
HandlerHasDevice ==
    /\ "irq" \in held => held = Resources
    /\ open # {} => Resources \ {"irq"} \subseteq held
=============================================================================
