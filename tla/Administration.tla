---------------------------- MODULE Administration ----------------------------
(***************************************************************************)
(* What the HTTP server keeps of its own: sessions, accounts, settings and *)
(* quality profiles, each in tables of its own.  They share no variable,   *)
(* no step of one is enabled or disabled by another, and no property here  *)
(* relates two of them: it is enough to let one of them work while the     *)
(* others have not begun.                                                  *)
(***************************************************************************)
EXTENDS Sessions, Accounts, Settings, ProfileStore

administrationVars == <<vars, accountVars, settingsVars, storeVars>>

AdministrationInit == Init /\ AccountsInit /\ SettingsInit /\ StoreInit

AdministrationNext ==
    \/ /\ AccountsInit /\ SettingsInit /\ StoreInit
       /\ Next
       /\ UNCHANGED <<accountVars, settingsVars, storeVars>>
    \/ /\ Init /\ SettingsInit /\ StoreInit
       /\ AccountsNext
       /\ UNCHANGED <<vars, settingsVars, storeVars>>
    \/ /\ Init /\ AccountsInit /\ StoreInit
       /\ SettingsNext
       /\ UNCHANGED <<vars, accountVars, storeVars>>
    \/ /\ Init /\ AccountsInit /\ SettingsInit
       /\ StoreNext
       /\ UNCHANGED <<vars, accountVars, settingsVars>>

AdministrationSpec == AdministrationInit /\ [][AdministrationNext]_administrationVars
=============================================================================
