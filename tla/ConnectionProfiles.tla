------------------------ MODULE ConnectionProfiles -------------------------
(***************************************************************************)
(* The server profiles of the Windows client: the list, the active one,    *)
(* the controls on screen that show and edit it, profiles.json, and the    *)
(* operations that move fields between the three.                          *)
(*                                                                         *)
(* Names, host, port and channel are one value; the repeater check box is  *)
(* apart, as it is saved at once.  Profiles are numbered from 1 here.      *)
(***************************************************************************)
EXTENDS Naturals, Sequences

CONSTANTS
    Field,      \* contents of the text controls
    Default,    \* the fields of ServerProfile{}
    MaxProfiles \* bound: profiles in the list

ASSUME ProfilesAssumption == Default \in Field /\ MaxProfiles \in Nat \ {0}

Profile == [field : Field, repeater : BOOLEAN]

VARIABLES
    profiles,         \* profiles_
    active,           \* activeProfileIndex_
    screen,           \* the controls
    picked,           \* profileChoice_'s selection
    userWantsSession, \* userWantsSession_ (and connected_, which follows it)
    stored,           \* profiles.json
    saving,           \* saves the handler still has to do: open, write, open ...
    shows             \* history: the profile whose fields the controls show

profileVars ==
    <<profiles, active, screen, picked, userWantsSession, stored, saving, shows>>

New == [field |-> Default, repeater |-> FALSE]

ProfilesTypeOK ==
    /\ profiles \in Seq(Profile) /\ Len(profiles) \in 1..MaxProfiles
    /\ active \in DOMAIN profiles
    /\ screen \in Profile
    /\ picked \in 1..MaxProfiles
    /\ userWantsSession \in BOOLEAN
    /\ stored.state \in {"absent", "torn", "whole"}
    /\ stored.list \in Seq(Profile)
    /\ shows \in 0..MaxProfiles

\* A first start, or one that finds the connection of an older version.
ProfilesInit ==
    /\ \E legacy \in Profile :
         /\ profiles = <<legacy>>
         /\ screen = legacy
         /\ \/ /\ legacy = New
               /\ stored = [state |-> "absent", active |-> 1, list |-> <<>>]
            \/ stored = [state |-> "whole", active |-> 1, list |-> <<legacy>>]
    /\ active = 1 /\ picked = 1 /\ shows = 1
    /\ userWantsSession = FALSE
    /\ saving = <<>>

-----------------------------------------------------------------------------
(* profiles.json.                                                          *)

SaveProfiles == <<"open", "write">>

Idle == saving = <<>>

ProfilesTruncated ==
    /\ ~Idle /\ Head(saving) = "open"
    /\ saving' = Tail(saving)
    /\ stored' = [stored EXCEPT !.state = "torn"]
    /\ UNCHANGED <<profiles, active, screen, picked, userWantsSession, shows>>

\* The stream did not open: this save is left out.
ProfilesNotOpened ==
    /\ ~Idle /\ Head(saving) = "open"
    /\ saving' = Tail(Tail(saving))
    /\ UNCHANGED <<profiles, active, screen, picked, userWantsSession, stored, shows>>

ProfilesWritten ==
    /\ ~Idle /\ Head(saving) = "write"
    /\ saving' = Tail(saving)
    /\ stored' = [state |-> "whole", active |-> active, list |-> profiles]
    /\ UNCHANGED <<profiles, active, screen, picked, userWantsSession, shows>>

\* RepopulateProfileChoice and SyncUiFromActiveProfile.
RepopulateProfileChoice == picked' = active'
SyncUiFromActiveProfile == screen' = profiles'[active'] /\ shows' = active'

\* The program ended, wherever it was, and is started again.  A torn file
\* does not parse: one default profile is left.
LoadProfiles ==
    /\ IF stored.state = "whole"
       THEN profiles' = stored.list /\ active' = stored.active
       ELSE profiles' = <<New>> /\ active' = 1
    /\ RepopulateProfileChoice
    /\ SyncUiFromActiveProfile
    /\ userWantsSession' = FALSE
    /\ saving' = <<>>
    /\ UNCHANGED stored

-----------------------------------------------------------------------------
(* The controls.  Those that edit are locked while a session is wanted.    *)

Typed(f) ==
    /\ Idle /\ ~userWantsSession
    /\ screen' = [screen EXCEPT !.field = f]
    /\ UNCHANGED <<profiles, active, picked, userWantsSession, stored, saving, shows>>

OnRepeaterToggled ==
    /\ Idle
    /\ screen' = [screen EXCEPT !.repeater = ~@]
    /\ profiles' = [profiles EXCEPT ![active].repeater = ~screen.repeater]
    /\ saving' = SaveProfiles
    /\ UNCHANGED <<active, picked, userWantsSession, stored, shows>>

SyncActiveProfileFromUi(s) == [profiles EXCEPT ![active] = s]

OnSaveProfile ==
    /\ Idle /\ ~userWantsSession
    /\ profiles' = SyncActiveProfileFromUi(screen)
    /\ saving' = SaveProfiles
    /\ UNCHANGED <<active, screen, userWantsSession, stored>>
    /\ RepopulateProfileChoice
    /\ shows' = active

\* The profile shown is given the fields on screen too, before they become a
\* profile of their own.
OnNewProfile ==
    /\ Idle /\ ~userWantsSession
    /\ Len(profiles) < MaxProfiles
    /\ profiles' = Append(SyncActiveProfileFromUi(screen), screen)
    /\ active' = Len(profiles')
    /\ saving' = SaveProfiles
    /\ RepopulateProfileChoice
    /\ shows' = active'
    /\ UNCHANGED <<screen, userWantsSession, stored>>

Least(a, b) == IF a =< b THEN a ELSE b

\* The selection of the choice control is deleted, and its successor, or the
\* last one, becomes active.
Deleted ==
    /\ Idle /\ ~userWantsSession
    /\ Len(profiles) > 1
    /\ profiles' = SubSeq(profiles, 1, picked - 1)
                   \o SubSeq(profiles, picked + 1, Len(profiles))
    /\ active' = Least(picked, Len(profiles) - 1)
    /\ saving' = SaveProfiles
    /\ RepopulateProfileChoice
    /\ UNCHANGED <<userWantsSession, stored>>

\* Mutant of OnDeleteProfile: the controls keep the fields of the one deleted.
OnDeleteUnsynced ==
    /\ Deleted
    /\ shows' = 0
    /\ UNCHANGED screen

OnDeleteProfile ==
    /\ Deleted
    /\ SyncUiFromActiveProfile

\* What a connect leaves: the profiles are saved if it was begun, and the
\* session is no longer wanted if not.
TryConnectWithCurrentFields(before) ==
    \/ /\ saving' = before \o SaveProfiles
       /\ userWantsSession' = TRUE
    \/ /\ saving' = before
       /\ userWantsSession' = FALSE

\* Another profile is chosen, with a session under way or without one.
OnProfileChoice(sel) ==
    /\ Idle
    /\ sel # active
    /\ picked' = sel /\ active' = sel
    /\ UNCHANGED <<profiles, stored>>
    /\ SyncUiFromActiveProfile
    /\ IF userWantsSession
       THEN TryConnectWithCurrentFields(SaveProfiles)
       ELSE saving' = SaveProfiles /\ UNCHANGED userWantsSession

ConnectClicked ==
    /\ Idle /\ ~userWantsSession
    /\ profiles' = SyncActiveProfileFromUi(screen)
    /\ TryConnectWithCurrentFields(<<>>)
    /\ UNCHANGED <<active, screen, picked, stored>>
    /\ shows' = active

SessionUnwanted ==
    /\ Idle /\ userWantsSession
    /\ userWantsSession' = FALSE
    /\ UNCHANGED <<profiles, active, screen, picked, stored, saving, shows>>

\* A link's fields are put on screen and into the active profile; a session
\* under way is connected again with them.
ApplyConnectUri(f) ==
    /\ Idle
    /\ screen' = [screen EXCEPT !.field = f]
    /\ profiles' = SyncActiveProfileFromUi(screen')
    /\ shows' = active
    /\ UNCHANGED <<active, picked, stored>>

OnImportConnectionLink(f) ==
    /\ ApplyConnectUri(f)
    /\ IF userWantsSession
       THEN TryConnectWithCurrentFields(SaveProfiles)
       ELSE saving' = SaveProfiles /\ UNCHANGED userWantsSession

ProfilesNext ==
    \/ ProfilesTruncated \/ ProfilesNotOpened \/ ProfilesWritten \/ LoadProfiles
    \/ OnRepeaterToggled \/ OnSaveProfile \/ OnNewProfile \/ OnDeleteProfile
    \/ ConnectClicked \/ SessionUnwanted
    \/ \E f \in Field : Typed(f) \/ OnImportConnectionLink(f)
    \/ \E sel \in DOMAIN profiles : OnProfileChoice(sel)
=============================================================================
