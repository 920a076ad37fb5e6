------------------------------- MODULE MCForge -------------------------------
(***************************************************************************)
(* The programs a person works with when they make a voice: the page of    *)
(* the Forge in a browser (ForgeUi), the voice_design commands             *)
(* (VoiceDesign), and the commands that install the backend it is to be    *)
(* heard on (Provisioning).  They share nothing here, so a behaviour is    *)
(* one of one of them, the others staying as they began.                   *)
(*                                                                         *)
(* The page: as in MCForgeUi; a load finds the door of the design open,    *)
(* since with less open the page can only do less.  The commands:          *)
(* two terminals, two personas and two previews, enough for write-backs of *)
(* two personas to cross, for an audition of more previews to be followed  *)
(* by one of fewer, and for persist to find either.                        *)
(***************************************************************************)
EXTENDS MCForgeUi, VoiceDesign, Provisioning

VARIABLE machine

forgeVars == <<machine, vars, designVars, provisionVars>>

ForgeInit ==
    /\ machine \in {"page", "design", "provision"}
    /\ Init /\ (machine # "page" => registry = {} /\ ~store.bench)
    /\ DesignInit /\ ProvisionInit

ForgeNext ==
    /\ UNCHANGED machine
    /\ \/ machine = "page"      /\ Next          /\ UNCHANGED <<designVars, provisionVars>>
       \/ machine = "design"    /\ DesignNext    /\ UNCHANGED <<vars, provisionVars>>
       \/ machine = "provision" /\ ProvisionNext /\ UNCHANGED <<vars, designVars>>

ForgeSpec == ForgeInit /\ [][ForgeNext]_forgeVars
=============================================================================
