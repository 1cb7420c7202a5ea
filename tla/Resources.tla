----------------------------- MODULE Resources -----------------------------
(***************************************************************************)
(* What a container needs besides itself: networks, volumes, images and    *)
(* root file systems, and the stacks that bring them together.  Where they *)
(* meet, in stack deploy and rm, module Stacks composes them; otherwise    *)
(* they share no state, so that one of them is at work in each behaviour   *)
(* and the others stand still.                                             *)
(***************************************************************************)
EXTENDS Stacks, Images, Rootfs, ComposeFile, References

CONSTANTS
    StackNetMenus,      \* the menus of behaviours of stacks
    StackVolMenus

ASSUME StackMenusAssumption ==
    StackNetMenus \subseteq NetMenus /\ StackVolMenus \subseteq VolMenus

VARIABLE focus          \* the component at work

resVars == <<netVars, volVars, imgVars, stkVars, rfVars, cfVars, refPulled, focus>>

Focuses == {"networks", "volumes", "images", "stacks", "rootfs", "compose", "references"}

\* A component that stands still has its first menu only.
Still(menus) == {CHOOSE m \in menus : TRUE}
MenusOf(f, menus, stack) ==
    IF focus = f THEN menus \ stack
    ELSE IF focus = "stacks" /\ stack # {} THEN stack ELSE Still(menus)

ResInit ==
    /\ focus \in Focuses
    /\ NetInit /\ netMenu \in MenusOf("networks", NetMenus, StackNetMenus)
    /\ VolInit /\ volMenu \in MenusOf("volumes", VolMenus, StackVolMenus)
    /\ ImgInit /\ imgMenu \in MenusOf("images", ImgMenus, {})
    /\ focus # "images" => \A i \in ImgIds : imgRemote[CHOOSE t \in Tags : TRUE] <= i
    /\ StkInit /\ RfInit /\ CfInit /\ RefInit

StacksStill == UNCHANGED <<netVars, volVars, stkVars>>
ImagesStill == UNCHANGED <<imgVars, refPulled>>
FilesStill == UNCHANGED <<rfVars, cfVars>>

ResNext ==
    /\ UNCHANGED focus
    /\ \/ focus = "networks" /\ NetNext /\ UNCHANGED <<volVars, stkVars>> /\ ImagesStill /\ FilesStill
       \/ focus = "volumes" /\ VolNext /\ UNCHANGED <<netVars, stkVars>> /\ ImagesStill /\ FilesStill
       \/ focus = "stacks" /\ StkNext /\ ImagesStill /\ FilesStill
       \/ focus = "images" /\ ImgNext /\ StacksStill /\ FilesStill /\ UNCHANGED refPulled
       \/ focus = "references" /\ RefNext /\ StacksStill /\ FilesStill /\ UNCHANGED imgVars
       \/ focus = "rootfs" /\ RfNext /\ StacksStill /\ ImagesStill /\ UNCHANGED cfVars
       \/ focus = "compose" /\ CfNext /\ StacksStill /\ ImagesStill /\ UNCHANGED rfVars

ResSpec == ResInit /\ [][ResNext]_resVars

-----------------------------------------------------------------------------

(* Every component keeps to its types.                                     *)
ResTypeOK ==
    /\ focus \in Focuses
    /\ NetTypeOK /\ VolTypeOK /\ ImgTypeOK /\ StkTypeOK /\ RfTypeOK /\ CfTypeOK /\ RefTypeOK
=============================================================================
