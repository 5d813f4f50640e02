----------------------------- MODULE MCHardware -----------------------------
(* Model checking instances of the drivers and of what lies right above     *)
(* them: a behaviour is one of FatCache, of SdCard, which the cache sees as *)
(* transfers that may fail, of the two parts of Usb, of Screen or of Panel. *)
EXTENDS FatCache, SdCard, Usb, Screen, Panel

CONSTANTS p1, p2

VARIABLE part

parts == <<cvars, sdvars, uvars, kvars, svars, pvars>>

\* Boxes in one row and in more, inside the panel and at its edges.
MCBoxes == {<<3, 2, 1, 1>>, <<0, 1, 4, 1>>, <<1, 1, 1, 3>>, <<1, 0, 2, 2>>}
MCSpots == {<<0, 0>>, <<3, 2>>}
MCPanelColors == {<<255, 130, 7>>, <<16, 3, 200>>}

\* The parts a behaviour is not about start, and stay, in one way only.
MCInit ==
    /\ part \in {"cache", "card", "usb", "keyboard", "screen", "panel"}
    /\ part = "card" \/ card = [state |-> "off", sdhc |-> TRUE, blocks512 |-> TRUE]
    /\ part = "usb" \/ plugged = [p \in Ports |-> Nothing]
    /\ CacheInit /\ CardInit /\ UsbInit /\ KeyboardInit /\ ScreenInit /\ PanelInit

MCNext ==
    \/ part = "cache" /\ CacheNext /\ UNCHANGED <<sdvars, uvars, kvars, svars, pvars, part>>
    \/ part = "card" /\ CardNext /\ UNCHANGED <<cvars, uvars, kvars, svars, pvars, part>>
    \/ part = "usb" /\ UsbNext /\ UNCHANGED <<cvars, sdvars, kvars, svars, pvars, part>>
    \/ part = "keyboard" /\ KeyboardNext /\ UNCHANGED <<cvars, sdvars, uvars, svars, pvars, part>>
    \/ part = "screen" /\ ScreenNext /\ UNCHANGED <<cvars, sdvars, uvars, kvars, pvars, part>>
    \/ part = "panel" /\ PanelNext /\ UNCHANGED <<cvars, sdvars, uvars, kvars, svars, part>>

MCSpec == MCInit /\ [][MCNext]_<<parts, part>>
=============================================================================
