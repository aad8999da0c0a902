------------------------------- MODULE Devices ------------------------------
(***************************************************************************)
(* The drivers of the devices, one at a time: they share no state.  What a *)
(* driver does is examined with the others at rest.                        *)
(***************************************************************************)
EXTENDS Display, Input, Console, DeviceTree, TLC

VARIABLE driver  \* the driver that runs

MCEventKinds == 0 :> {"press", "left", "left up", "wild"} @@ 1 :> {"press", "truncated"}

MCOutputs == LET a == "a"
             IN  {<<a>>, <<a, "newline">>, <<a, a, "return", a, a, a>>, <<"tab", a>>}

(* At rest the input devices are all ready.                                *)
DevicesInit ==
    /\ driver \in {"display", "input", "console", "tree"}
    /\ DisplayInit /\ InputInit /\ ConsoleInit /\ TreeInit
    /\ driver # "input" => ~masked /\ irqs = Devices /\ ready = Devices

DevicesNext ==
    \/ /\ driver = "display" /\ DisplayNext
       /\ UNCHANGED <<driver, inputvars, consolevars, treevars>>
    \/ /\ driver = "input" /\ InputNext
       /\ UNCHANGED <<driver, displayvars, consolevars, treevars>>
    \/ /\ driver = "console" /\ ConsoleNext
       /\ UNCHANGED <<driver, displayvars, inputvars, treevars>>
    \/ /\ driver = "tree" /\ TreeNext
       /\ UNCHANGED <<driver, displayvars, inputvars, consolevars>>

devicesvars == <<driver, displayvars, inputvars, consolevars, treevars>>

(* InputFairness, where the keyboard driver runs.                          *)
DevicesFairness ==
    /\ WF_inputvars(driver = "input" /\ Handling)
    /\ WF_inputvars(driver = "input" /\ Reading)
    /\ SF_inputvars(driver = "input" /\ timer_tick)
    /\ \A d \in Devices : /\ WF_inputvars(driver = "input" /\ DeviceRaises(d))
                          /\ SF_inputvars(driver = "input" /\ vhid_irq_handle(d))

DevicesSpec == DevicesInit /\ [][DevicesNext]_devicesvars /\ DevicesFairness
-----------------------------------------------------------------------------
DevicesTypeOK == DisplayTypeOK /\ InputTypeOK /\ ConsoleTypeOK /\ TreeTypeOK
=============================================================================
