------------------------- MODULE SharedFilesProofs -------------------------
(***************************************************************************)
(* The three shared files, for any number of processes.                     *)
(*                                                                         *)
(* The settings (ConsentStore), with or without crashes: the types, and     *)
(* that nothing is transmitted before somebody has allowed it.  For one GUI *)
(* process and any number of command lines: no save brings an older answer  *)
(* back before a command runs, and until then the window shows what the     *)
(* file holds.                                                              *)
(*                                                                         *)
(* The payload (EmbeddedStore), of any files and through any number of      *)
(* starts: the types, and that the marker stands for all of them.           *)
(*                                                                         *)
(* The hosts file (HostsFile), of any lines, with any lists and any number  *)
(* of updates: the types, that the lines of others stay, and that what is   *)
(* listed is what was applied.                                              *)
(***************************************************************************)
EXTENDS SharedFiles, FiniteSetTheorems, SequenceTheorems, TLAPS

-----------------------------------------------------------------------------
(* The settings *)

\* Whatever the file holds, Settings::Load returns well-formed settings.
LEMMA LoadType ==
    ASSUME NEW f \in File \cup {Unreadable}
    PROVE  Load(f) \in Settings
<1>1. CASE f = Unreadable
  BY <1>1, ConstAssumption DEF Load, Defaults, Settings, Consents
<1>2. CASE f \in File
  <2>1. f # Unreadable
    BY <1>2, ConstAssumption
  <2>2. ConsentIn(f) \in Consents
    BY <1>2 DEF ConsentIn, File, Consents
  <2>3. QED
    BY <1>2, <2>1, <2>2 DEF Load, Settings, File
<1>3. QED
  BY <1>1, <1>2

\* Settings::Save writes a file of the current format.
LEMMA FileOfType ==
    ASSUME NEW s \in Settings
    PROVE  FileOf(s) \in File
BY DEF FileOf, File, Settings

-----------------------------------------------------------------------------
LEMMA InitType == Init => TypeOK
<1> SUFFICES ASSUME Init PROVE TypeOK
  OBVIOUS
<1>1. Defaults \in Settings
  BY ConstAssumption DEF Defaults, Settings, Consents
<1>2. disk \in File \cup {Unreadable}
  BY DEF Init
<1>3. Load(disk).consent \in Consents
  BY <1>2, LoadType DEF Settings
<1>4. QED
  BY <1>1, <1>2, <1>3, ConstAssumption
  DEF Init, TypeOK, Process, Stages, Ops, Events

\* Starting a save keeps the types of the three variables it changes.
LEMMA SavingType ==
    ASSUME TypeOK, NEW p \in Process, NEW o \in Ops, NEW s \in Settings,
           Saving(p, o, s)
    PROVE  /\ op' \in [Process -> Ops]
           /\ out' \in [Process -> Settings]
           /\ stage' \in [Process -> Stages]
BY DEF TypeOK, Saving, Goto, Stages

LEMMA GuiUserType ==
    ASSUME TypeOK, NEW g \in Gui, GuiUser(g)
    PROVE  TypeOK'
<1> USE DEF Process
<1>0. Load(disk) \in Settings /\ mem[g] \in Settings
  BY LoadType DEF TypeOK
<1>1. CASE Launch(g)
  <2> DEFINE s == [Load(disk) EXCEPT !.first = FALSE]
  <2>1. s \in Settings
    BY <1>0 DEF Settings
  <2>2. CASE Saving(g, "first", s)
    BY <1>1, <2>1, <2>2, SavingType DEF Launch, TypeOK, Ops
  <2>3. CASE Goto(g, "ask") /\ UNCHANGED <<op, out>>
    BY <1>1, <2>1, <2>3 DEF Launch, TypeOK, Goto, Stages
  <2>4. QED
    BY <1>1, <2>2, <2>3 DEF Launch
<1>2. ASSUME NEW o \in Ops, NEW c \in Consents, SetConsent(g, o, c)
      PROVE  /\ op' \in [Process -> Ops]
             /\ out' \in [Process -> Settings]
             /\ stage' \in [Process -> Stages]
  <2>1. [Load(disk) EXCEPT !.consent = c, !.off = c # "granted"] \in Settings
    BY <1>0 DEF Settings
  <2>2. QED
    BY <1>2, <2>1, SavingType DEF SetConsent
<1>3. ASSUME NEW c \in {"granted", "declined"}, AnswerDialog(g, c)
      PROVE  TypeOK'
  BY <1>2, <1>3 DEF AnswerDialog, TypeOK, Ops, Consents
<1>4. CASE ToggleCheckbox(g)
  <2>1. (IF mem[g].consent = "granted" THEN "declined" ELSE "granted") \in Consents
    BY DEF Consents
  <2>2. QED
    BY <1>2, <1>4, <2>1 DEF ToggleCheckbox, TypeOK, Ops
<1>5. CASE EditSetting(g)
  BY <1>0, <1>5, SavingType DEF EditSetting, TypeOK, Ops
<1>6. CASE SetPage(g)
  BY <1>0, <1>6, SavingType DEF SetPage, TypeOK, Ops
<1>7. CASE StartBench(g)
  BY <1>7 DEF StartBench, TypeOK
<1>8. CASE End(g)
  BY <1>8 DEF End, Goto, TypeOK, Stages, Ops
<1>9. QED
  BY <1>1, <1>3, <1>4, <1>5, <1>6, <1>7, <1>8 DEF GuiUser, Quit, Crash

LEMMA SaveType ==
    ASSUME TypeOK, NEW p \in Process, Truncate(p) \/ Write(p)
    PROVE  TypeOK'
<1>1. CASE Truncate(p)
  BY <1>1 DEF Truncate, Goto, TypeOK, Stages
<1>2. CASE Write(p)
  <2>1. out[p] \in Settings
    BY DEF TypeOK
  <2>2. disk' \in File
    BY <1>2, <2>1, FileOfType DEF Write, Remember
  <2>3. mem' \in [Gui -> Settings]
    <3>1. /\ mem \in [Gui -> Settings]
          /\ out[p].consent \in Consents /\ out[p].off \in BOOLEAN
      BY <2>1 DEF TypeOK, Settings
    <3>2. \A s \in Settings :
            [s EXCEPT !.consent = out[p].consent, !.off = out[p].off] \in Settings
      BY <3>1 DEF Settings
    <3> QED BY <1>2, <3>1, <3>2 DEF Write, Remember
  <2>4. answer' \in Consents /\ allowed' \in BOOLEAN /\ lost' \in BOOLEAN
    BY <1>2, <2>1 DEF Write, Remember, TypeOK, Settings
  <2>5. AfterSave(p) \in Stages
    BY DEF AfterSave, Stages
  <2>6. stage' \in [Process -> Stages]
    BY <1>2, <2>5 DEF Write, Remember, Goto, TypeOK
  <2>7. QED
    BY <1>2, <2>2, <2>3, <2>4, <2>6 DEF Write, Remember, TypeOK, Ops
<1>3. QED
  BY <1>1, <1>2

LEMMA TransmitType ==
    ASSUME TypeOK, NEW g \in Gui, NEW e \in Events, Transmit(g, e)
    PROVE  sent' \subseteq Gui \X Events
BY DEF TypeOK, Transmit

LEMMA GuiCodeType ==
    ASSUME TypeOK, NEW g \in Gui, GuiCode(g) \/ Background(g)
    PROVE  TypeOK'
<1> USE DEF Process
<1>1. CASE AskOrSchedule(g)
  BY <1>1 DEF AskOrSchedule, Goto, TypeOK, Stages
<1>2. CASE ScheduleLaunchEvents(g)
  BY <1>2 DEF ScheduleLaunchEvents, Goto, TypeOK, Stages
<1>3. CASE TrackScreen(g)
  <2>1. Load(disk) \in Settings
    BY LoadType DEF TypeOK
  <2>2. QED
    BY <1>3, <2>1, SavingType DEF TrackScreen, TypeOK, Ops
<1>4. CASE CheckScreen(g)
  BY <1>4 DEF CheckScreen, Goto, TypeOK, Stages
<1>5. CASE SendScreen(g)
  BY <1>5, TransmitType DEF SendScreen, Goto, TypeOK, Stages, Events
<1>6. CASE Truncate(g) \/ Write(g)
  BY <1>6, SaveType
<1>7. CASE LaunchEvent(g)
  BY <1>7, TransmitType DEF LaunchEvent, TypeOK, Events
<1>8. CASE LaunchEvent30(g)
  BY <1>8, TransmitType DEF LaunchEvent30, TypeOK, Events
<1>9. CASE CheckBench(g)
  BY <1>9 DEF CheckBench, TypeOK
<1>10. CASE SendBench(g)
  BY <1>10, TransmitType DEF SendBench, TypeOK, Events
<1>11. QED
  BY <1>1, <1>2, <1>3, <1>4, <1>5, <1>6, <1>7, <1>8, <1>9, <1>10
  DEF GuiCode, Background

LEMMA CliType ==
    ASSUME TypeOK, NEW c \in Cli, CliCode(c)
    PROVE  TypeOK'
<1> USE DEF Process
<1>1. ASSUME NEW consent \in Consents, CmdAnalytics(c, consent)
      PROVE  TypeOK'
  <2>1. [Load(disk) EXCEPT !.consent = consent, !.off = consent # "granted"] \in Settings
    BY LoadType DEF TypeOK, Settings
  <2>2. QED
    BY <1>1, <2>1, SavingType DEF CmdAnalytics, SetConsent, TypeOK, Ops
<1>2. CASE Truncate(c) \/ Write(c)
  BY <1>2, SaveType
<1>3. CASE CrashCli(c)
  BY <1>3 DEF CrashCli, Goto, TypeOK, Stages, Ops
<1>4. CASE CmdSettings(c)
  <2>1. Load(disk) \in Settings
    BY LoadType DEF TypeOK
  <2>2. QED
    BY <1>4, <2>1, SavingType DEF CmdSettings, TypeOK, Ops
<1>5. CASE CmdPresetImport(c)
  <2>1. Defaults \in Settings
    BY LoadType DEF TypeOK, Load
  <2>2. QED
    BY <1>5, <2>1, SavingType DEF CmdPresetImport, TypeOK, Ops
<1>6. QED
  BY <1>1, <1>2, <1>3, <1>4, <1>5 DEF CliCode

\* The variables of every reachable state are well-formed.
THEOREM TypeCorrect == Spec => []TypeOK
<1>1. TypeOK /\ [Next]_vars => TypeOK'
  <2> SUFFICES ASSUME TypeOK, [Next]_vars PROVE TypeOK'
    OBVIOUS
  <2>1. CASE UNCHANGED vars
    BY <2>1 DEF vars, TypeOK
  <2>2. CASE Next
    BY <2>2, GuiUserType, GuiCodeType, CliType DEF Next
  <2>3. QED
    BY <2>1, <2>2
<1>2. QED
  BY <1>1, InitType, PTL DEF Spec

-----------------------------------------------------------------------------
\* What Load returns grants consent only if the file does.
LEMMA LoadGrants ==
    ASSUME NEW f \in File \cup {Unreadable},
           f # Unreadable => ConsentIn(f) # "granted"
    PROVE  Load(f).consent # "granted"
BY DEF Load, Defaults

\* The consent of a file just saved is that of the settings saved.
LEMMA FileOfConsent ==
    ASSUME NEW s \in Settings
    PROVE  ConsentIn(FileOf(s)) = s.consent
BY DEF FileOf, ConsentIn, Settings, Consents

LEMMA InitAllow == Init => AllowInv
<1> SUFFICES ASSUME Init, ~allowed PROVE UnallowedNowhere
  BY DEF AllowInv
<1>1. Load(disk).consent # "granted"
  BY DEF Init
<1>2. disk # Unreadable => ConsentIn(disk) # "granted"
  BY <1>1 DEF Load
<1>3. QED
  BY <1>2 DEF Init, UnallowedNowhere, Process, Defaults

LEMMA GuiUserAllow ==
    ASSUME TypeOK, AllowInv, NEW g \in Gui, GuiUser(g)
    PROVE  AllowInv'
<1> SUFFICES ASSUME ~allowed' PROVE UnallowedNowhere'
  BY DEF AllowInv
<1> USE DEF Process
<1>0. ~allowed
  BY DEF GuiUser, Launch, AnswerDialog, ToggleCheckbox, EditSetting, SetPage,
         StartBench, Quit, Crash, End
<1>a. UnallowedNowhere
  BY <1>0 DEF AllowInv
<1>b. Load(disk) \in Settings /\ Load(disk).consent # "granted"
  BY <1>a, LoadType, LoadGrants DEF TypeOK, UnallowedNowhere
<1>1. CASE Launch(g)
  <2> DEFINE s == [Load(disk) EXCEPT !.first = FALSE]
  <2>1. s.consent # "granted"
    BY <1>b DEF Settings
  <2>2. mem' = [mem EXCEPT ![g] = s]
    BY <1>1 DEF Launch
  <2>3. Saving(g, "first", s) \/ (Goto(g, "ask") /\ UNCHANGED <<op, out>>)
    BY <1>1 DEF Launch
  <2> HIDE DEF s
  <2>4. \A h \in Gui : mem'[h].consent # "granted"
    BY <1>a, <2>1, <2>2 DEF TypeOK, UnallowedNowhere
  <2>5. \A p \in Process :
          /\ stage'[p] # "send"
          /\ stage'[p] \in {"truncate", "write"} /\ op'[p] \notin Answers
               => out'[p].consent # "granted"
    BY <1>a, <2>1, <2>3 DEF Saving, Goto, UnallowedNowhere, TypeOK
  <2>6. UNCHANGED <<disk, launch, bench, sent>>
    BY <1>1 DEF Launch
  <2>7. QED
    BY <1>a, <2>4, <2>5, <2>6 DEF UnallowedNowhere
<1>2. ASSUME NEW c \in {"granted", "declined"}, AnswerDialog(g, c)
      PROVE  UnallowedNowhere'
  BY <1>2, <1>a
  DEF AnswerDialog, SetConsent, Saving, Goto, UnallowedNowhere, TypeOK, Answers
<1>3. CASE ToggleCheckbox(g)
  BY <1>3, <1>a
  DEF ToggleCheckbox, SetConsent, Saving, Goto, UnallowedNowhere, TypeOK, Answers
<1>4. CASE EditSetting(g)
  BY <1>4, <1>a DEF EditSetting, Saving, Goto, UnallowedNowhere, TypeOK
<1>5. CASE SetPage(g)
  BY <1>5, <1>a DEF SetPage, Saving, Goto, UnallowedNowhere, TypeOK
<1>6. CASE StartBench(g)
  BY <1>6, <1>a DEF StartBench, UnallowedNowhere, TypeOK
<1>7. CASE End(g)
  BY <1>7, <1>a DEF End, Goto, UnallowedNowhere, TypeOK
<1>8. QED
  BY <1>1, <1>2, <1>3, <1>4, <1>5, <1>6, <1>7 DEF GuiUser, Quit, Crash

LEMMA SaveAllow ==
    ASSUME TypeOK, AllowInv, NEW p \in Process, Truncate(p) \/ Write(p)
    PROVE  AllowInv'
<1> SUFFICES ASSUME ~allowed' PROVE UnallowedNowhere'
  BY DEF AllowInv
<1> USE DEF Process
<1>0. ~allowed
  BY DEF Truncate, Write, Remember
<1>a. UnallowedNowhere
  BY <1>0 DEF AllowInv
<1>1. CASE Truncate(p)
  BY <1>1, <1>a DEF Truncate, Goto, UnallowedNowhere, TypeOK
<1>2. CASE Write(p)
  <2>1. out[p] \in Settings /\ out[p].consent # "granted"
    BY <1>2, <1>a DEF Write, Remember, TypeOK, UnallowedNowhere
  <2>2. ConsentIn(disk') # "granted"
    BY <1>2, <2>1, FileOfConsent DEF Write, Remember
  <2>3. \A g \in Gui : mem'[g].consent # "granted"
    BY <1>2, <1>a, <2>1 DEF Write, Remember, UnallowedNowhere, TypeOK, Settings
  <2>4. AfterSave(p) \notin {"send", "truncate", "write"}
    BY DEF AfterSave
  <2>5. \A q \in Process :
           /\ stage'[q] # "send"
           /\ stage'[q] \in {"truncate", "write"} /\ op'[q] \notin Answers
                => out'[q].consent # "granted"
    BY <1>2, <1>a, <2>4 DEF Write, Remember, Goto, UnallowedNowhere, TypeOK
  <2>6. QED
    BY <1>2, <1>a, <2>2, <2>3, <2>5 DEF Write, Remember, UnallowedNowhere
<1>3. QED
  BY <1>1, <1>2

LEMMA GuiCodeAllow ==
    ASSUME TypeOK, AllowInv, NEW g \in Gui, GuiCode(g) \/ Background(g)
    PROVE  AllowInv'
<1>0. CASE Truncate(g) \/ Write(g)
  BY <1>0, SaveAllow DEF Process
<1>1. CASE ~(Truncate(g) \/ Write(g))
  <2> SUFFICES ASSUME ~allowed' PROVE UnallowedNowhere'
    BY DEF AllowInv
  <2> USE DEF Process
  <2>a. UnallowedNowhere
    BY <1>1 DEF AllowInv, GuiCode, Background, AskOrSchedule,
       ScheduleLaunchEvents, TrackScreen, CheckScreen, SendScreen, LaunchEvent,
       LaunchEvent30, CheckBench, SendBench
  <2>b. Load(disk) \in Settings /\ Load(disk).consent # "granted" /\ ~IsEnabled
    BY <2>a, LoadType, LoadGrants DEF TypeOK, UnallowedNowhere, IsEnabled
  <2>1. CASE AskOrSchedule(g)
    BY <2>1, <2>a DEF AskOrSchedule, Goto, UnallowedNowhere, TypeOK
  <2>2. CASE ScheduleLaunchEvents(g)
    BY <2>2, <2>a, <2>b DEF ScheduleLaunchEvents, Goto, UnallowedNowhere, TypeOK
  <2>3. CASE TrackScreen(g)
    BY <2>3, <2>a, <2>b DEF TrackScreen, Saving, Goto, UnallowedNowhere, TypeOK, Settings
  <2>4. CASE CheckScreen(g)
    BY <2>4, <2>a, <2>b DEF CheckScreen, Goto, UnallowedNowhere, TypeOK
  <2>5. CASE CheckBench(g)
    BY <2>5, <2>a, <2>b DEF CheckBench, UnallowedNowhere, TypeOK
  <2>6. ~(SendScreen(g) \/ LaunchEvent(g) \/ LaunchEvent30(g) \/ SendBench(g))
    BY <2>a DEF SendScreen, LaunchEvent, LaunchEvent30, SendBench, UnallowedNowhere
  <2>7. QED
    BY <1>1, <2>1, <2>2, <2>3, <2>4, <2>5, <2>6 DEF GuiCode, Background
<1>2. QED
  BY <1>0, <1>1

LEMMA CliAllow ==
    ASSUME TypeOK, AllowInv, NEW c \in Cli, CliCode(c)
    PROVE  AllowInv'
<1>1. CASE Truncate(c) \/ Write(c)
  BY <1>1, SaveAllow DEF Process
<1>2. ASSUME NEW consent \in Consents, CmdAnalytics(c, consent)
      PROVE  AllowInv'
  BY <1>2 DEF CmdAnalytics, SetConsent, Saving, Goto, AllowInv, UnallowedNowhere,
              TypeOK, Process, Answers
<1>3. CASE CrashCli(c)
  BY <1>3 DEF CrashCli, Goto, AllowInv, UnallowedNowhere, TypeOK, Process
<1>4. CASE CmdSettings(c)
  <2>1. UnallowedNowhere => Load(disk).consent # "granted"
    BY LoadGrants DEF TypeOK, UnallowedNowhere
  <2>2. QED
    BY <1>4, <2>1 DEF CmdSettings, Saving, Goto, AllowInv, UnallowedNowhere, TypeOK, Process
<1>5. CASE CmdPresetImport(c)
  BY <1>5 DEF CmdPresetImport, Saving, Goto, AllowInv, UnallowedNowhere, TypeOK,
              Process, Defaults
<1>6. QED
  BY <1>1, <1>2, <1>3, <1>4, <1>5 DEF CliCode

\* However many programs run, are killed and overwrite each other's settings,
\* no event is transmitted before the user has allowed it.
THEOREM NothingIsSentBeforeAllow == Spec => []NothingBeforeAllow
<1>1. TypeOK /\ AllowInv /\ [Next]_vars => AllowInv'
  <2> SUFFICES ASSUME TypeOK, AllowInv, [Next]_vars PROVE AllowInv'
    OBVIOUS
  <2>1. CASE UNCHANGED vars
    BY <2>1 DEF vars, AllowInv, UnallowedNowhere, ConsentIn
  <2>2. CASE Next
    BY <2>2, GuiUserAllow, GuiCodeAllow, CliAllow DEF Next
  <2>3. QED
    BY <2>1, <2>2
<1>2. AllowInv => NothingBeforeAllow
  BY DEF AllowInv, UnallowedNowhere, NothingBeforeAllow
<1>3. QED
  BY <1>1, <1>2, InitAllow, TypeCorrect, PTL DEF Spec

-----------------------------------------------------------------------------
\* What Load returns is one of the consents that a readable file may hold,
\* and one that an unreadable file may stand for.
LEMMA LoadKeeps ==
    ASSUME NEW f \in File \cup {Unreadable}, NEW C,
           f # Unreadable => ConsentIn(f) \in C,
           f = Unreadable => "unknown" \in C
    PROVE  Load(f).consent \in C
BY DEF Load, Defaults

LEMMA InitKept == Init => KeptInv
<1> SUFFICES ASSUME Init PROVE KeptEverywhere
  BY DEF KeptInv
<1>1. disk # Unreadable => ConsentIn(disk) \in Current
  BY DEF Init, Current, Load
<1>2. disk = Unreadable => "unknown" \in Current
  BY DEF Init, Current, Load, Defaults
<1>3. QED
  BY <1>1, <1>2 DEF Init, KeptEverywhere, Process

\* The steps of the only GUI process, as long as no command runs.
LEMMA KeptStep ==
    ASSUME NEW g, Gui = {g}, TypeOK, KeptEverywhere,
           GuiUser(g) \/ GuiCode(g) \/ Background(g)
    PROVE  KeptEverywhere'
<1> USE DEF Process
<1>a. g \in Gui /\ g \in Process
  OBVIOUS
<1>b. Load(disk) \in Settings
  BY LoadType DEF TypeOK
<1>c. stage[g] # "write" => Load(disk).consent \in Current
  BY LoadKeeps DEF TypeOK, KeptEverywhere
<1>1. CASE Launch(g)
  <2> DEFINE s == [Load(disk) EXCEPT !.first = FALSE]
  <2>0. Load(disk).consent \in Current
    BY <1>1, <1>c DEF Launch
  <2>1. s.consent \in Current
    BY <1>b, <2>0 DEF Settings
  <2>2. mem' = [mem EXCEPT ![g] = s]
    BY <1>1 DEF Launch
  <2>3. Saving(g, "first", s) \/ (Goto(g, "ask") /\ UNCHANGED <<op, out>>)
    BY <1>1 DEF Launch
  <2> HIDE DEF s
  <2>4. \A h \in Gui : stage'[h] # "off" => mem'[h].consent \in Current
    BY <2>1, <2>2 DEF TypeOK
  <2>5. \A h \in Gui :
          /\ op'[h] # "cli"
          /\ stage'[h] \in {"truncate", "write"} /\ op'[h] \notin Answers
               => out'[h].consent \in Current
    BY <1>a, <2>1, <2>3 DEF Saving, Goto, KeptEverywhere, TypeOK
  <2>6. stage[g] = "off" /\ UNCHANGED <<disk, answer>>
    BY <1>1 DEF Launch
  <2>7. Current' = Current
    BY <1>1 DEF Launch, Current
  <2>8. disk = Unreadable => "unknown" \in Current
    BY <2>6 DEF KeptEverywhere
  <2>9. QED
    BY <2>4, <2>5, <2>6, <2>7, <2>8 DEF KeptEverywhere
<1>2. ASSUME NEW c \in {"granted", "declined"}, AnswerDialog(g, c)
      PROVE  KeptEverywhere'
  BY <1>2, <1>a DEF AnswerDialog, SetConsent, Saving, Goto, KeptEverywhere,
                    Current, TypeOK, Answers
<1>3. CASE ToggleCheckbox(g)
  BY <1>3, <1>a DEF ToggleCheckbox, SetConsent, Saving, Goto, KeptEverywhere,
                    Current, TypeOK, Answers
<1>4. CASE EditSetting(g)
  BY <1>4, <1>a DEF EditSetting, Saving, Goto, KeptEverywhere, Current, TypeOK
<1>5. CASE SetPage(g)
  BY <1>5, <1>a DEF SetPage, Saving, Goto, KeptEverywhere, Current, TypeOK
<1>6. CASE StartBench(g)
  BY <1>6, <1>a DEF StartBench, KeptEverywhere, Current, TypeOK
<1>7. CASE End(g)
  BY <1>7, <1>a DEF End, Goto, KeptEverywhere, Current, TypeOK
<1>8. CASE AskOrSchedule(g)
  BY <1>8, <1>a DEF AskOrSchedule, Goto, KeptEverywhere, Current, TypeOK
<1>9. CASE ScheduleLaunchEvents(g)
  BY <1>9, <1>a DEF ScheduleLaunchEvents, Goto, KeptEverywhere, Current, TypeOK
<1>10. CASE TrackScreen(g)
  <2>1. Load(disk).consent \in Current
    BY <1>10, <1>c DEF TrackScreen
  <2>2. QED
    BY <1>10, <1>a, <1>b, <2>1
    DEF TrackScreen, Saving, Goto, KeptEverywhere, Current, TypeOK
<1>11. CASE CheckScreen(g)
  BY <1>11, <1>a DEF CheckScreen, Goto, KeptEverywhere, Current, TypeOK
<1>12. CASE SendScreen(g)
  BY <1>12, <1>a DEF SendScreen, Goto, KeptEverywhere, Current, TypeOK
<1>13. CASE Truncate(g)
  BY <1>13, <1>a DEF Truncate, Goto, KeptEverywhere, Current, TypeOK
<1>14. CASE Write(g)
  <2>1. ConsentIn(disk') = out[g].consent /\ out[g] \in Settings /\ mem[g] \in Settings
    BY <1>14, <1>a, FileOfConsent DEF Write, TypeOK
  <2>2. AfterSave(g) \notin {"off", "truncate", "write"}
    BY DEF AfterSave
  <2>3. disk' # Unreadable
    <3>1. disk' \in File
      BY <1>14, <2>1, FileOfType DEF Write
    <3>2. QED
      BY <3>1, ConstAssumption
  <2>4. CASE op[g] \in Answers
    <3>1. Current' = {out[g].consent}
      BY <1>14, <2>4 DEF Write, Current
    <3>2. op[g] \in {"dialog", "checkbox"}
      BY <1>a, <2>4 DEF Answers, KeptEverywhere
    <3>3. mem'[g].consent = out[g].consent
      BY <1>14, <1>a, <2>1, <3>2 DEF Write, Remember, TypeOK, Settings
    <3>4. QED
      BY <1>14, <1>a, <2>1, <2>2, <2>3, <3>1, <3>3
      DEF Write, Goto, KeptEverywhere, TypeOK
  <2>5. CASE op[g] \notin Answers
    <3>1. mem' = mem /\ Current' = Current
      BY <1>14, <2>5 DEF Write, Remember, Current, Answers
    <3>2. out[g].consent \in Current
      BY <1>14, <1>a, <2>5 DEF Write, KeptEverywhere
    <3>3. mem[g].consent \in Current
      BY <1>14, <1>a DEF Write, KeptEverywhere
    <3>4. QED
      BY <1>14, <1>a, <2>1, <2>2, <2>3, <3>1, <3>2, <3>3
      DEF Write, Goto, KeptEverywhere, TypeOK
  <2>6. QED
    BY <2>4, <2>5
<1>15. CASE Background(g)
  BY <1>15, <1>a DEF Background, LaunchEvent, LaunchEvent30, CheckBench, SendBench,
                     KeptEverywhere, Current, TypeOK
<1>16. QED
  BY <1>1, <1>2, <1>3, <1>4, <1>5, <1>6, <1>7, <1>8, <1>9, <1>10, <1>11,
     <1>12, <1>13, <1>14, <1>15 DEF GuiUser, GuiCode, Quit, Crash

\* A GUI process leaves the command lines alone, and a command that has run
\* never becomes one that has not.
LEMMA AloneBefore ==
    ASSUME TypeOK, Next, Alone'
    PROVE  Alone /\ \E g \in Gui : GuiUser(g) \/ GuiCode(g) \/ Background(g)
<1> USE DEF Process
<1>1. ASSUME NEW g \in Gui, GuiUser(g) \/ GuiCode(g) \/ Background(g)
      PROVE  \A c \in Cli : stage'[c] = stage[c]
  <2>1. g \notin Cli
    BY ConstAssumption
  <2>2. stage' = stage \/ \E s : stage' = [stage EXCEPT ![g] = s]
    BY <1>1
    DEF GuiUser, Launch, Saving, Goto, AnswerDialog, SetConsent, ToggleCheckbox,
        EditSetting, SetPage, StartBench, Quit, Crash, End, GuiCode,
        AskOrSchedule, ScheduleLaunchEvents, TrackScreen, CheckScreen,
        SendScreen, Truncate, Write, Background, LaunchEvent, LaunchEvent30,
        CheckBench, SendBench
  <2>3. QED
    BY <2>1, <2>2 DEF TypeOK
<1>2. ASSUME NEW c \in Cli, CliCode(c)
      PROVE  stage'[c] # "off"
  <2>1. AfterSave(c) # "off"
    BY DEF AfterSave
  <2>2. QED
    BY <1>2, <2>1
    DEF CliCode, CmdAnalytics, SetConsent, CmdSettings, CmdPresetImport, Saving,
        Goto, Truncate, Write, CrashCli, TypeOK
<1>3. QED
  BY <1>1, <1>2 DEF Next, Alone

\* While one GUI process is the only user of the settings file, nothing it
\* saves brings an earlier answer back; if it is killed inside a save, the
\* answer is at worst forgotten.
THEOREM AnswerIsKept ==
    ASSUME NEW g, Gui = {g}
    PROVE  Spec => []AnswerKept
<1>1. TypeOK /\ KeptInv /\ [Next]_vars => KeptInv'
  <2> SUFFICES ASSUME TypeOK, KeptInv, [Next]_vars, Alone' PROVE KeptEverywhere'
    BY DEF KeptInv
  <2>1. CASE UNCHANGED vars
    BY <2>1 DEF vars, KeptInv, KeptEverywhere, Current, ConsentIn, Alone
  <2>2. CASE Next
    BY <2>2, AloneBefore, KeptStep DEF KeptInv
  <2>3. QED
    BY <2>1, <2>2
<1>2. KeptInv => AnswerKept
  BY DEF KeptInv, KeptEverywhere, AnswerKept
<1>3. QED
  BY <1>1, <1>2, InitKept, TypeCorrect, PTL DEF Spec
-----------------------------------------------------------------------------
\* The steps at which nothing is being saved and the file is not about to be either.
Settled == {"ask", "schedule", "idle", "track", "screen", "send"}

\* What makes ShownIsStored inductive: between two saves the copy of a window has the
\* consent of the file, and a save has that of the copy, unless it is of a new answer,
\* which Write copies.
ShownInv ==
    Alone => \A g \in Gui :
      /\ stage[g] \in Settled => disk # Unreadable /\ mem[g].consent = ConsentIn(disk)
      /\ stage[g] \in {"truncate", "write"} =>
           op[g] \in {"dialog", "checkbox"} \/ out[g].consent = mem[g].consent

LEMMA ShownStep ==
    ASSUME NEW g, Gui = {g}, TypeOK, Alone, ShownInv,
           GuiUser(g) \/ GuiCode(g) \/ Background(g)
    PROVE  ShownInv'
<1> USE DEF Process, Settled
<1>a. g \in Gui /\ g \in Process
  OBVIOUS
<1>b. Load(disk) \in Settings /\ mem[g] \in Settings
  BY LoadType DEF TypeOK
<1>c. disk # Unreadable => Load(disk).consent = ConsentIn(disk)
  BY DEF Load
<1>1. CASE Launch(g)
  <2> DEFINE s == [Load(disk) EXCEPT !.first = FALSE]
  <2>1. s.consent = Load(disk).consent
    BY <1>b DEF Settings
  <2>2. mem' = [mem EXCEPT ![g] = s] /\ disk' = disk
    BY <1>1 DEF Launch
  <2> HIDE DEF s
  <2>3. mem'[g] = s
    BY <1>a, <2>2 DEF TypeOK
  <2>4. CASE Saving(g, "first", s)
    BY <1>a, <2>3, <2>4 DEF Saving, Goto, ShownInv, TypeOK
  <2>5. CASE ~Load(disk).first /\ Goto(g, "ask")
    <3>1. disk # Unreadable
      BY <2>5 DEF Load, Defaults
    <3>2. stage'[g] = "ask"
      BY <1>a, <2>5 DEF Goto, TypeOK
    <3> QED
      BY <1>a, <1>c, <2>1, <2>2, <2>3, <3>1, <3>2 DEF ShownInv, ConsentIn
  <2> QED
    BY <1>1, <2>4, <2>5 DEF Launch, s
<1>2. ASSUME NEW c \in {"granted", "declined"}, AnswerDialog(g, c)
      PROVE  ShownInv'
  BY <1>2, <1>a DEF AnswerDialog, SetConsent, Saving, Goto, ShownInv, TypeOK
<1>3. CASE ToggleCheckbox(g)
  BY <1>3, <1>a DEF ToggleCheckbox, SetConsent, Saving, Goto, ShownInv, TypeOK
<1>4. CASE EditSetting(g) \/ SetPage(g)
  BY <1>4, <1>a DEF EditSetting, SetPage, Saving, Goto, ShownInv, TypeOK
<1>5. CASE TrackScreen(g)
  <2>1. Load(disk).consent = mem[g].consent
    BY <1>5, <1>a, <1>c DEF TrackScreen, ShownInv
  <2> QED
    BY <1>5, <1>a, <2>1 DEF TrackScreen, Saving, Goto, ShownInv, TypeOK
<1>6. CASE End(g)
  BY <1>6, <1>a DEF End, Goto, ShownInv, TypeOK
<1>7. CASE AskOrSchedule(g) \/ ScheduleLaunchEvents(g) \/ CheckScreen(g) \/ SendScreen(g)
  <2>1. /\ stage[g] \in Settled /\ stage'[g] \in Settled
        /\ disk' = disk /\ mem' = mem
    BY <1>7, <1>a DEF AskOrSchedule, ScheduleLaunchEvents, CheckScreen, SendScreen, Goto, TypeOK
  <2> QED
    BY <1>a, <2>1 DEF ShownInv, ConsentIn, Alone
<1>8. CASE Truncate(g)
  BY <1>8, <1>a DEF Truncate, Goto, ShownInv, TypeOK
<1>9. CASE Write(g)
  <2>1. ConsentIn(disk') = out[g].consent /\ out[g] \in Settings
    BY <1>9, <1>a, FileOfConsent DEF Write, TypeOK
  <2>2. disk' # Unreadable
    BY <1>9, <2>1, FileOfType, ConstAssumption DEF Write
  <2>3. mem'[g].consent = out[g].consent
    BY <1>9, <1>a, <1>b, <2>1 DEF Write, Remember, ShownInv, TypeOK, Settings
  <2>4. stage'[g] \notin {"truncate", "write"}
    BY <1>9, <1>a DEF Write, Goto, AfterSave, TypeOK
  <2> QED
    BY <1>a, <2>1, <2>2, <2>3, <2>4 DEF ShownInv
<1>10. CASE StartBench(g) \/ Background(g)
  <2>1. UNCHANGED <<disk, mem, stage, op, out>>
    BY <1>10 DEF StartBench, Background, LaunchEvent, LaunchEvent30, CheckBench, SendBench
  <2> QED
    BY <2>1 DEF ShownInv, ConsentIn, Alone
<1> QED
  BY <1>1, <1>2, <1>3, <1>4, <1>5, <1>6, <1>7, <1>8, <1>9, <1>10
  DEF GuiUser, GuiCode, Quit, Crash

\* As long as no command has run, the check box of a window that waits for its user
\* shows what the transmitting threads read, through any number of launches, answers,
\* saves and crashes, and it waits only over a file that can be read.
THEOREM ShownConsentIsStored ==
    ASSUME NEW g, Gui = {g}
    PROVE  Spec => []ShownIsStored
<1>1. Init => ShownInv
  BY DEF Init, ShownInv, Process, Settled
<1>2. TypeOK /\ ShownInv /\ [Next]_vars => ShownInv'
  <2> SUFFICES ASSUME TypeOK, ShownInv, [Next]_vars, Alone' PROVE ShownInv'
    BY DEF ShownInv
  <2>1. CASE UNCHANGED vars
    BY <2>1 DEF vars, ShownInv, ConsentIn, Alone
  <2>2. CASE Next
    BY <2>2, AloneBefore, ShownStep
  <2> QED
    BY <2>1, <2>2
<1>3. ShownInv => ShownIsStored
  BY DEF ShownInv, ShownIsStored, Settled
<1> QED
  BY <1>1, <1>2, <1>3, TypeCorrect, PTL DEF Spec

-----------------------------------------------------------------------------
(* The payload *)

\* The payload is a sequence of files.
LEMMA FilesInOrder == Payload \in [1..Len(Payload) -> E!Files] /\ Len(Payload) \in Nat
BY EmbeddedAssumption DEF E!ConstAssumption

\* No file is carried twice.
LEMMA OneFileEach ==
    ASSUME NEW i \in DOMAIN Payload, NEW j \in DOMAIN Payload, Payload[i] = Payload[j]
    PROVE  i = j
BY EmbeddedAssumption DEF E!ConstAssumption

\* The parts of the invariant hold when nobody has started.
LEMMA StoreInit == E!Init => E!StoreInv
<1> SUFFICES ASSUME E!Init PROVE E!StoreInv
  OBVIOUS
<1>1. E!TypeOK
  <2>1. 0 \in 0..Len(Payload) + 1 /\ 0 \in 0..MaxStarts
    BY FilesInOrder, EmbeddedAssumption DEF E!ConstAssumption
  <2> QED BY <2>1 DEF E!Init, E!TypeOK
<1>2. E!InRange /\ E!OneExtracts /\ E!SoFar /\ E!Repaired
  BY DEF E!Init, E!InRange, E!OneExtracts, E!SoFar, E!Repaired, E!AtIt
<1> QED BY <1>1, <1>2 DEF E!StoreInv

\* Every step keeps the types, and the number of the file that is next within the payload.
LEMMA StoreTypeStep == E!TypeOK /\ E!InRange /\ [E!Next]_E!vars => E!TypeOK' /\ E!InRange'
<1> SUFFICES ASSUME E!TypeOK, E!InRange, [E!Next]_E!vars PROVE E!TypeOK' /\ E!InRange'
  OBVIOUS
<1> USE FilesInOrder, EmbeddedAssumption
    DEF E!TypeOK, E!InRange, E!ConstAssumption, E!Goto, E!RunFrom, E!disk, E!procs, E!history
<1>1. ASSUME NEW p \in Starters, E!Launch(p) PROVE E!TypeOK' /\ E!InRange'
  <2>1. E!Present \in SUBSET E!Files
    BY DEF E!Present
  <2>0. starts' \in 0..MaxStarts
    BY <1>1 DEF E!Launch
  <2>2. CASE beside \/ marker
    <3>1. /\ \E r \in {"exe", "store"} : E!RunFrom(p, r)
          /\ UNCHANGED <<beside, there, content, marker, doomed, together, whole, killed, spoiled>>
      BY <1>1, <2>2 DEF E!Launch
    <3> QED BY <2>0, <3>1
  <2>3. CASE ~(beside \/ marker)
    <3>1. together' \in BOOLEAN
      BY <1>1, <2>3 DEF E!Launch
    <3>2. /\ eStage' = [eStage EXCEPT ![p] = "remove"]
          /\ doomed' = [doomed EXCEPT ![p] = E!Present]
          /\ UNCHANGED <<beside, there, content, marker, next, root, whole, killed, spoiled>>
      BY <1>1, <2>3 DEF E!Launch
    <3> QED BY <2>0, <2>1, <3>1, <3>2
  <2> QED BY <2>2, <2>3
<1>2. ASSUME NEW p \in Starters, E!RemoveFile(p) PROVE E!TypeOK' /\ E!InRange'
  BY <1>2 DEF E!RemoveFile
<1>3. ASSUME NEW p \in Starters, E!RemoveDirectory(p) PROVE E!TypeOK' /\ E!InRange'
  BY <1>3 DEF E!RemoveDirectory
<1>4. ASSUME NEW p \in Starters, E!CreateDirectory(p) PROVE E!TypeOK' /\ E!InRange'
  BY <1>4 DEF E!CreateDirectory
<1>5. ASSUME NEW p \in Starters, E!OpenFile(p) PROVE E!TypeOK' /\ E!InRange'
  BY <1>5 DEF E!OpenFile
<1>6. ASSUME NEW p \in Starters, E!OpenFails(p) PROVE E!TypeOK' /\ E!InRange'
  BY <1>6 DEF E!OpenFails
<1>7. ASSUME NEW p \in Starters, E!WriteFile(p) PROVE E!TypeOK' /\ E!InRange'
  BY <1>7 DEF E!WriteFile, E!After
<1>8. ASSUME NEW p \in Starters, E!WriteFails(p) PROVE E!TypeOK' /\ E!InRange'
  BY <1>8 DEF E!WriteFails, E!After
<1>9. ASSUME NEW p \in Starters, E!MakeMarker(p) PROVE E!TypeOK' /\ E!InRange'
  BY <1>9 DEF E!MakeMarker
<1>10. ASSUME NEW p \in Starters, E!Exit(p) PROVE E!TypeOK' /\ E!InRange'
  BY <1>10 DEF E!Exit
<1>11. CASE UNCHANGED E!vars
  BY <1>11 DEF E!vars
<1> QED BY <1>1, <1>2, <1>3, <1>4, <1>5, <1>6, <1>7, <1>8, <1>9, <1>10, <1>11 DEF E!Next

\* Unless two were at it together, one process extracts, and what runs from the
\* directory does so under the marker.
LEMMA OneExtractsStep ==
    ASSUME E!TypeOK, E!OneExtracts, [E!Next]_E!vars
    PROVE  E!OneExtracts'
<1> USE FilesInOrder DEF E!TypeOK, E!OneExtracts, E!AtIt, E!Goto, E!RunFrom, E!disk, E!procs, E!history
<1>1. ASSUME NEW p \in Starters, E!Launch(p) PROVE E!OneExtracts'
  <2>1. CASE beside \/ marker
    <3>1. /\ \E r \in {"exe", "store"} : E!RunFrom(p, r) /\ (r = "store" => marker)
          /\ UNCHANGED <<there, marker, together>>
      BY <1>1, <2>1 DEF E!Launch
    <3> QED BY <3>1
  <2>2. CASE ~(beside \/ marker)
    <3>1. ~together' => ~together /\ \A q \in Starters : ~E!AtIt(q)
      BY <1>1, <2>2 DEF E!Launch
    <3>2. ~marker /\ ~marker' /\ eStage' = [eStage EXCEPT ![p] = "remove"] /\ UNCHANGED <<there, root>>
      BY <1>1, <2>2 DEF E!Launch
    <3> QED BY <3>1, <3>2
  <2> QED BY <2>1, <2>2
<1>2. ASSUME NEW p \in Starters, E!RemoveFile(p) PROVE E!OneExtracts'
  BY <1>2 DEF E!RemoveFile
<1>3. ASSUME NEW p \in Starters, E!RemoveDirectory(p) PROVE E!OneExtracts'
  <2> SUFFICES ASSUME ~together PROVE E!OneExtracts'
    BY <1>3 DEF E!RemoveDirectory
  <2>1. ~marker /\ \A q \in Starters : E!AtIt(q) => q = p
    BY <1>3 DEF E!RemoveDirectory
  <2>2. marker' \in {FALSE, marker}
    BY <1>3 DEF E!RemoveDirectory
  <2>3. eStage' = [eStage EXCEPT ![p] = "create"] /\ root' = root
    BY <1>3 DEF E!RemoveDirectory
  <2>4. \A q \in Starters :
          /\ eStage'[q] = IF q = p THEN "create" ELSE eStage[q]
          /\ root[q] # "store"
    BY <2>1, <2>3
  <2>5. /\ \A q \in Starters : eStage'[q] \notin {"open", "write", "mark"}
        /\ \A q \in Starters : E!AtIt(q)' => q = p
    BY <2>1, <2>4
  <2>6. ~marker'
    BY <2>1, <2>2
  <2> QED BY <2>3, <2>4, <2>5, <2>6
<1>4. ASSUME NEW p \in Starters, E!CreateDirectory(p) PROVE E!OneExtracts'
  BY <1>4 DEF E!CreateDirectory
<1>5. ASSUME NEW p \in Starters, E!OpenFile(p) PROVE E!OneExtracts'
  BY <1>5 DEF E!OpenFile
<1>6. ASSUME NEW p \in Starters, E!OpenFails(p) PROVE E!OneExtracts'
  BY <1>6 DEF E!OpenFails
<1>7. ASSUME NEW p \in Starters, E!WriteFile(p) PROVE E!OneExtracts'
  BY <1>7 DEF E!WriteFile, E!After
<1>8. ASSUME NEW p \in Starters, E!WriteFails(p) PROVE E!OneExtracts'
  BY <1>8 DEF E!WriteFails, E!After
<1>9. ASSUME NEW p \in Starters, E!MakeMarker(p) PROVE E!OneExtracts'
  BY <1>9 DEF E!MakeMarker
<1>10. ASSUME NEW p \in Starters, E!Exit(p) PROVE E!OneExtracts'
  BY <1>10 DEF E!Exit
<1>11. CASE UNCHANGED E!vars
  BY <1>11 DEF E!vars
<1> QED BY <1>1, <1>2, <1>3, <1>4, <1>5, <1>6, <1>7, <1>8, <1>9, <1>10, <1>11 DEF E!Next

\* Every file of the payload has a content.
LEMMA PayloadType ==
    E!TypeOK => \A i \in DOMAIN Payload : i \in Nat /\ Payload[i] \in DOMAIN content
BY FilesInOrder DEF E!TypeOK, E!Files

\* What a process that extracts alone has come past is whole.
LEMMA SoFarStep ==
    ASSUME E!TypeOK, E!InRange, E!OneExtracts, E!SoFar, [E!Next]_E!vars
    PROVE  E!SoFar'
<1> USE FilesInOrder DEF E!TypeOK, E!InRange, E!OneExtracts, E!SoFar, E!Complete, E!Files, E!AtIt, E!Goto, E!RunFrom, E!disk, E!procs, E!history
<1>1. ASSUME NEW p \in Starters, E!Launch(p) PROVE E!SoFar'
  <2> SUFFICES ASSUME ~together, ~spoiled PROVE E!SoFar'
    BY <1>1 DEF E!Launch
  <2>1. content' = content /\ marker' = marker /\ whole' = whole
    BY <1>1 DEF E!Launch
  <2>2. eStage'[p] \in {"remove", "run"}
    BY <1>1 DEF E!Launch
  <2>3. \A q \in Starters \ {p} : eStage'[q] = eStage[q] /\ next'[q] = next[q]
    BY <1>1 DEF E!Launch
  <2> QED BY <2>1, <2>2, <2>3
<1>2. ASSUME NEW p \in Starters, E!RemoveFile(p) PROVE E!SoFar'
  <2> SUFFICES ASSUME ~together, ~spoiled PROVE E!SoFar'
    BY <1>2 DEF E!RemoveFile
  <2>1. ~marker /\ \A q \in Starters : eStage[q] \notin {"open", "write", "mark"}
    BY <1>2 DEF E!RemoveFile
  <2>2. marker' = marker /\ eStage' = eStage
    BY <1>2 DEF E!RemoveFile
  <2> QED BY <2>1, <2>2
<1>3. ASSUME NEW p \in Starters, E!RemoveDirectory(p) PROVE E!SoFar'
  BY <1>3 DEF E!RemoveDirectory
<1>4. ASSUME NEW p \in Starters, E!CreateDirectory(p) PROVE E!SoFar'
  BY <1>4 DEF E!CreateDirectory
<1>5. ASSUME NEW p \in Starters, E!OpenFile(p) PROVE E!SoFar'
  <2> SUFFICES ASSUME ~together, ~spoiled PROVE E!SoFar'
    BY <1>5 DEF E!OpenFile
  <2>1. ~marker' /\ \A q \in Starters : E!AtIt(q) => q = p
    BY <1>5 DEF E!OpenFile
  <2>2. \A i \in 1..next[p] - 1 : content'[Payload[i]] = "whole"
    <3> SUFFICES ASSUME NEW i \in 1..next[p] - 1 PROVE content'[Payload[i]] = "whole"
      OBVIOUS
    <3>1. i \in DOMAIN Payload /\ next[p] \in DOMAIN Payload /\ i # next[p]
      BY <1>5 DEF E!OpenFile
    <3>2. Payload[i] # Payload[next[p]]
      BY <3>1, OneFileEach
    <3>3. Payload[i] \in DOMAIN content /\ content[Payload[i]] = "whole"
      BY <1>5, <2>1, <3>1, PayloadType DEF E!OpenFile
    <3>4. \E c : content' = [content EXCEPT ![Payload[next[p]]] = c]
      BY <1>5 DEF E!OpenFile
    <3> QED BY <3>2, <3>3, <3>4
  <2>3. whole'[p] /\ next' = next /\ eStage' = [eStage EXCEPT ![p] = "write"]
    BY <1>5 DEF E!OpenFile
  <2> QED BY <2>1, <2>2, <2>3
<1>6. ASSUME NEW p \in Starters, E!OpenFails(p) PROVE E!SoFar'
  BY <1>6 DEF E!OpenFails
<1>7. ASSUME NEW p \in Starters, E!WriteFile(p) PROVE E!SoFar'
  <2> SUFFICES ASSUME ~together, ~spoiled PROVE E!SoFar'
    BY <1>7 DEF E!WriteFile
  <2>1. ~marker' /\ \A q \in Starters : E!AtIt(q) => q = p
    BY <1>7 DEF E!WriteFile
  <2>2. next[p] \in 1..Len(Payload) /\ whole[p] /\ Payload[next[p]] \in DOMAIN content
    BY <1>7 DEF E!WriteFile
  <2>3. \A i \in 1..next[p] : content'[Payload[i]] = "whole"
    <3>1. content' = [content EXCEPT ![Payload[next[p]]] = "whole"]
      BY <1>7, <2>2 DEF E!WriteFile
    <3>2. \A i \in 1..next[p] - 1 : content[Payload[i]] = "whole"
      BY <1>7 DEF E!WriteFile
    <3>3. \A i \in 1..next[p] : i = next[p] \/ i \in 1..next[p] - 1
      BY <2>2
    <3>4. content'[Payload[next[p]]] = "whole"
      BY <2>2, <3>1
    <3>5. ASSUME NEW i \in 1..next[p] - 1 PROVE content'[Payload[i]] = "whole"
      <4>1. i \in DOMAIN Payload
        BY <2>2
      <4>2. Payload[i] \in DOMAIN content
        BY <4>1, PayloadType
      <4> QED BY <3>1, <3>2, <4>2
    <3> QED BY <3>3, <3>4, <3>5
  <2>4. /\ next' = [next EXCEPT ![p] = next[p] + 1]
        /\ eStage' = [eStage EXCEPT ![p] = IF next[p] = Len(Payload) THEN "mark" ELSE "open"]
    BY <1>7 DEF E!WriteFile, E!After
  <2>5. next[p] = Len(Payload) => E!Complete'
    BY <2>3
  <2>6. eStage'[p] \in {"open", "mark"} /\ (eStage'[p] = "mark" => E!Complete')
    BY <2>4, <2>5
  <2>7. \A i \in 1..next'[p] - 1 : content'[Payload[i]] = "whole"
    BY <2>2, <2>3, <2>4
  <2>8. \A q \in Starters \ {p} : eStage'[q] \notin {"open", "write", "mark"}
    BY <2>1, <2>4
  <2> QED BY <2>1, <2>6, <2>7, <2>8
<1>8. ASSUME NEW p \in Starters, E!WriteFails(p) PROVE E!SoFar'
  BY <1>8 DEF E!WriteFails, E!After
<1>9. ASSUME NEW p \in Starters, E!MakeMarker(p) PROVE E!SoFar'
  BY <1>9 DEF E!MakeMarker
<1>10. ASSUME NEW p \in Starters, E!Exit(p) PROVE E!SoFar'
  BY <1>10 DEF E!Exit
<1>11. CASE UNCHANGED E!vars
  BY <1>11 DEF E!vars
<1> QED BY <1>1, <1>2, <1>3, <1>4, <1>5, <1>6, <1>7, <1>8, <1>9, <1>10, <1>11 DEF E!Next

\* Who is as he was owes what he owed.
LEMMA OwesStill ==
    ASSUME NEW p, NEW i, UNCHANGED <<eStage[p], next[p], whole[p]>>
    PROVE  (E!Owes(p, i) <=> E!Owes(p, i)') /\ (E!AtIt(p) <=> E!AtIt(p)')
BY DEF E!Owes, E!AtIt

\* The step of one process, if it repairs what it undoes.
LEMMA RepairsItself ==
    ASSUME E!TypeOK, E!Repaired, NEW p \in Starters,
           killed' = killed, spoiled' = spoiled,
           marker' => marker \/ E!AtIt(p), E!AtIt(p)' => E!AtIt(p),
           \A q \in Starters \ {p} : E!AtIt(q)' => E!AtIt(q),
           \A i \in DOMAIN Payload :
             \/ content'[Payload[i]] = "whole" \/ E!Owes(p, i)'
             \/ /\ content[Payload[i]] = "whole" => content'[Payload[i]] = "whole"
                /\ E!Owes(p, i) => E!Owes(p, i)'
                /\ \A q \in Starters \ {p} : E!Owes(q, i) => E!Owes(q, i)'
    PROVE  E!Repaired'
<1> SUFFICES ASSUME ~killed, ~spoiled, (marker \/ \E q \in Starters : E!AtIt(q))',
                    NEW i \in DOMAIN Payload
             PROVE  content'[Payload[i]] = "whole" \/ \E q \in Starters : E!Owes(q, i)'
  BY DEF E!Repaired
<1>1. marker \/ \E q \in Starters : E!AtIt(q)
  OBVIOUS
<1>2. content[Payload[i]] = "whole" \/ \E q \in Starters : E!Owes(q, i)
  BY <1>1 DEF E!Repaired
<1> QED BY <1>2

\* Whoever begins again owes everything.
LEMMA BeginsAgain ==
    ASSUME NEW q \in Starters, eStage'[q] \in {"remove", "create"}
    PROVE  E!Repaired'
BY DEF E!Repaired, E!Owes

\* As long as nobody is killed, every file that is not whole is owed by somebody.
LEMMA RepairedStep ==
    ASSUME E!TypeOK, E!InRange, E!Repaired, [E!Next]_E!vars
    PROVE  E!Repaired'
<1> USE DEF E!Goto, E!RunFrom, E!disk, E!procs, E!history
<1>1. ASSUME NEW p \in Starters, E!Launch(p) PROVE E!Repaired'
  <2>1. CASE beside \/ marker
    <3>1. /\ eStage[p] = "off" /\ \E r \in {"exe", "store"} : E!RunFrom(p, r)
          /\ UNCHANGED <<content, marker, whole, killed, spoiled>>
      BY <1>1, <2>1 DEF E!Launch
    <3>2. \A q \in Starters \ {p} : UNCHANGED <<eStage[q], next[q], whole[q]>>
      BY <3>1 DEF E!TypeOK
    <3>3. eStage'[p] = "run" /\ \A i : ~E!Owes(p, i)
      BY <3>1 DEF E!TypeOK, E!Owes
    <3>4. ~E!AtIt(p)'
      BY <3>3 DEF E!AtIt
    <3> QED BY <3>1, <3>2, <3>3, <3>4, OwesStill, RepairsItself
  <2>2. CASE ~(beside \/ marker)
    <3>1. eStage'[p] = "remove"
      BY <1>1, <2>2 DEF E!Launch, E!TypeOK
    <3> QED BY <3>1, BeginsAgain
  <2> QED BY <2>1, <2>2
<1>2. ASSUME NEW p \in Starters, E!RemoveFile(p) PROVE E!Repaired'
  <2>1. eStage'[p] = "remove"
    BY <1>2 DEF E!RemoveFile
  <2> QED BY <2>1, BeginsAgain
<1>3. ASSUME NEW p \in Starters, E!RemoveDirectory(p) PROVE E!Repaired'
  <2>1. eStage'[p] = "create"
    BY <1>3 DEF E!RemoveDirectory, E!TypeOK
  <2> QED BY <2>1, BeginsAgain
<1>4. ASSUME NEW p \in Starters, E!CreateDirectory(p) PROVE E!Repaired'
  <2>1. /\ eStage[p] = "create" /\ next'[p] = 1
        /\ eStage'[p] = IF Payload = <<>> THEN "mark" ELSE "open"
        /\ UNCHANGED <<content, marker, killed, spoiled>>
        /\ \A q \in Starters \ {p} : UNCHANGED <<eStage[q], next[q], whole[q]>>
    BY <1>4 DEF E!CreateDirectory, E!TypeOK
  <2>2. \A i \in DOMAIN Payload : 1 <= i /\ Payload # <<>>
    BY FilesInOrder
  <2>3. \A i \in DOMAIN Payload : E!Owes(p, i)'
    BY <2>1, <2>2 DEF E!Owes
  <2>4. E!AtIt(p)
    BY <2>1 DEF E!AtIt
  <2> QED BY <2>1, <2>3, <2>4, OwesStill, RepairsItself
<1>5. ASSUME NEW p \in Starters, E!OpenFile(p) PROVE E!Repaired'
  <2>1. next[p] \in DOMAIN Payload
    BY <1>5, FilesInOrder DEF E!OpenFile, E!InRange
  <2>2. /\ eStage[p] = "open" /\ eStage'[p] = "write" /\ next'[p] = next[p] /\ whole'[p]
        /\ content' = [content EXCEPT ![Payload[next[p]]] = "part"]
        /\ UNCHANGED <<marker, killed, spoiled>>
        /\ \A q \in Starters \ {p} :
             /\ UNCHANGED <<eStage[q], next[q]>>
             /\ next[q] # next[p] => whole'[q] = whole[q]
    BY <1>5 DEF E!OpenFile, E!TypeOK
  <2>3. E!Owes(p, next[p])'
    BY <2>2 DEF E!Owes
  <2>4. ASSUME NEW i \in DOMAIN Payload, i # next[p]
        PROVE  /\ content'[Payload[i]] = content[Payload[i]]
               /\ E!Owes(p, i) => E!Owes(p, i)'
               /\ \A q \in Starters \ {p} : E!Owes(q, i) => E!Owes(q, i)'
    <3>1. Payload[i] # Payload[next[p]]
      BY <2>1, <2>4, OneFileEach
    <3>2. content'[Payload[i]] = content[Payload[i]]
      BY <2>2, <3>1, PayloadType
    <3>3. E!Owes(p, i) => E!Owes(p, i)'
      BY <2>1, <2>2, <2>4, PayloadType DEF E!Owes
    <3>4. ASSUME NEW q \in Starters \ {p}, E!Owes(q, i) PROVE E!Owes(q, i)'
      BY <2>2, <2>4, <3>4 DEF E!Owes
    <3> QED BY <3>2, <3>3, <3>4
  <2>5. E!AtIt(p) /\ \A q \in Starters \ {p} : E!AtIt(q)' => E!AtIt(q)
    BY <2>2 DEF E!AtIt
  <2> QED BY <2>2, <2>3, <2>4, <2>5, RepairsItself
<1>6. ASSUME NEW p \in Starters, E!OpenFails(p) PROVE E!Repaired'
  <2> SUFFICES ASSUME ~spoiled' PROVE E!Repaired'
    BY DEF E!Repaired
  <2>1. PICK q \in Starters \ {p} : eStage[q] \in {"remove", "create"}
    BY <1>6 DEF E!OpenFails, E!TypeOK
  <2>2. eStage'[q] \in {"remove", "create"}
    BY <1>6, <2>1 DEF E!OpenFails, E!TypeOK
  <2> QED BY <2>2, BeginsAgain
<1>7. ASSUME NEW p \in Starters, E!WriteFile(p) PROVE E!Repaired'
  <2>1. next[p] \in DOMAIN Payload /\ next[p] \in Nat
    BY <1>7, FilesInOrder DEF E!WriteFile, E!InRange
  <2>2. /\ eStage[p] = "write" /\ next'[p] = next[p] + 1
        /\ eStage'[p] = IF next[p] = Len(Payload) THEN "mark" ELSE "open"
        /\ content' = [content EXCEPT ![Payload[next[p]]] = IF whole[p] THEN "whole" ELSE @]
        /\ UNCHANGED <<marker, killed, spoiled>>
        /\ \A q \in Starters \ {p} : UNCHANGED <<eStage[q], next[q], whole[q]>>
    BY <1>7 DEF E!WriteFile, E!After, E!TypeOK
  <2>3. \A i \in DOMAIN Payload : content[Payload[i]] = "whole" => content'[Payload[i]] = "whole"
    BY <2>1, <2>2, PayloadType
  <2>4. whole[p] => content'[Payload[next[p]]] = "whole"
    BY <2>1, <2>2, PayloadType
  <2>5. ASSUME NEW i \in DOMAIN Payload, E!Owes(p, i), i # next[p] \/ ~whole[p]
        PROVE  E!Owes(p, i)'
    <3>1. i \in Nat /\ i <= Len(Payload) /\ next[p] < i
      BY <2>1, <2>2, <2>5, FilesInOrder DEF E!Owes
    <3>2. eStage'[p] = "open" /\ next'[p] <= i
      BY <2>1, <2>2, <3>1, FilesInOrder
    <3> QED BY <3>2 DEF E!Owes
  <2>6. E!AtIt(p)
    BY <2>2 DEF E!AtIt
  <2> QED BY <2>2, <2>3, <2>4, <2>5, <2>6, OwesStill, RepairsItself
<1>8. ASSUME NEW p \in Starters, E!WriteFails(p) PROVE E!Repaired'
  BY <1>8 DEF E!WriteFails, E!Repaired
<1>9. ASSUME NEW p \in Starters, E!MakeMarker(p) PROVE E!Repaired'
  <2>1. /\ eStage[p] = "mark" /\ eStage'[p] = "run"
        /\ UNCHANGED <<content, killed, spoiled>>
        /\ \A q \in Starters \ {p} : UNCHANGED <<eStage[q], next[q], whole[q]>>
    BY <1>9 DEF E!MakeMarker, E!TypeOK
  <2>2. E!AtIt(p) /\ \A i : ~E!Owes(p, i)
    BY <2>1 DEF E!AtIt, E!Owes
  <2> QED BY <2>1, <2>2, OwesStill, RepairsItself
<1>10. ASSUME NEW p \in Starters, E!Exit(p) PROVE E!Repaired'
  <2> SUFFICES ASSUME ~killed' PROVE E!Repaired'
    BY DEF E!Repaired
  <2>1. /\ eStage[p] = "run" /\ eStage'[p] = "off"
        /\ UNCHANGED <<content, marker, spoiled, killed>>
        /\ \A q \in Starters \ {p} : UNCHANGED <<eStage[q], next[q], whole[q]>>
    BY <1>10 DEF E!Exit, E!TypeOK, E!AtIt
  <2>2. ~E!AtIt(p)' /\ \A i : ~E!Owes(p, i)
    BY <2>1 DEF E!AtIt, E!Owes
  <2> QED BY <2>1, <2>2, OwesStill, RepairsItself
<1>11. CASE UNCHANGED E!vars
  BY <1>11 DEF E!vars, E!Repaired, E!AtIt, E!Owes
<1> QED BY <1>1, <1>2, <1>3, <1>4, <1>5, <1>6, <1>7, <1>8, <1>9, <1>10, <1>11 DEF E!Next
LEMMA StoreStep == E!StoreInv /\ [E!Next]_E!vars => E!StoreInv'
BY StoreTypeStep, OneExtractsStep, SoFarStep, RepairedStep DEF E!StoreInv

LEMMA StoreAlways == E!Spec => []E!StoreInv
BY StoreInit, StoreStep, PTL DEF E!Spec

\* Every file whole is the directory complete.
LEMMA CompleteFiles ==
    (\A i \in DOMAIN Payload : content[Payload[i]] = "whole") => E!Complete
BY DEF E!Complete, E!Files

\* Nobody who is not at it owes anything.
LEMMA NothingOwed == ASSUME NEW p, NEW i, ~E!AtIt(p) PROVE ~E!Owes(p, i)
BY DEF E!AtIt, E!Owes

\* The invariant says what the marker and the running processes promise.
LEMMA StoreInvTells == E!StoreInv => CompleteWhenUsed
<1> SUFFICES ASSUME E!StoreInv PROVE E!MarkerMeansComplete /\ E!UsedIsComplete
  BY DEF CompleteWhenUsed, E!CompleteWhenUsed
<1>1. E!MarkerMeansComplete
  <2> SUFFICES ASSUME marker, \A p \in Starters : ~E!AtIt(p), ~spoiled, ~together \/ ~killed
               PROVE  E!Complete
    BY DEF E!MarkerMeansComplete, E!StoreInv, E!TypeOK
  <2>1. CASE ~together
    BY <2>1 DEF E!StoreInv, E!SoFar
  <2>2. CASE ~killed
    BY <2>2, NothingOwed, CompleteFiles DEF E!StoreInv, E!Repaired
  <2> QED BY <2>1, <2>2
<1>2. E!UsedIsComplete
  BY DEF E!UsedIsComplete, E!StoreInv, E!OneExtracts, E!SoFar
<1> QED BY <1>1, <1>2

\* The variables of the extraction hold what the code can put there.
THEOREM StoreTypeCorrect == E!Spec => []E!TypeOK
BY StoreAlways, PTL DEF E!StoreInv

\* However many first starts there are, a marker at rest stands for a complete directory
\* unless one among several was killed or a file could not be written, and a process that
\* extracts alone runs with all its files.
THEOREM StoreComplete == E!Spec => []CompleteWhenUsed
BY StoreAlways, StoreInvTells, PTL

-----------------------------------------------------------------------------
(* The hosts file: what a loop that appends collects, and in which order *)

\* Every set of numbers that is not empty has a least one.
LEMMA Least ==
    ASSUME NEW S \in SUBSET Nat, S # {}
    PROVE  \E m \in S : \A x \in S : m <= x
<1>1. PICK m \in S : \A x \in S : <<x, m>> \notin OpToRel(<, Nat)
  BY NatLessThanWellFounded, WFMin
<1>2. \A x \in S : ~(x < m)
  BY <1>1 DEF OpToRel
<1> QED BY <1>2

\* So Min and Max of the library find what they are named for.
LEMMA MinOf ==
    ASSUME NEW S \in SUBSET Nat, S # {}
    PROVE  H!Min(S) \in S /\ \A x \in S : H!Min(S) <= x
BY Least DEF H!Min

LEMMA MaxOf ==
    ASSUME NEW n \in Nat, NEW S \in SUBSET 0..n, S # {}
    PROVE  H!Max(S) \in S /\ \A x \in S : x <= H!Max(S)
<1> DEFINE T == {n - x : x \in S}
<1>1. T \in SUBSET Nat /\ T # {}
  <2>1. \A x \in S : n - x \in Nat
    OBVIOUS
  <2> QED BY <2>1
<1>2. PICK m \in T : \A x \in T : m <= x
  BY <1>1, Least
<1>3. PICK y \in S : m = n - y
  OBVIOUS
<1>4. ASSUME NEW x \in S PROVE x <= y
  <2>1. n - x \in T
    OBVIOUS
  <2>2. n - y <= n - x /\ x \in Int /\ y \in Int
    BY <1>2, <1>3, <2>1
  <2> QED BY <2>2
<1> QED BY <1>4 DEF H!Max

-----------------------------------------------------------------------------
\* How many members of D are not beyond i.
Rank(D, i) == H!Cardinality({j \in D : j <= i})

\* The cardinality inside the instance is the cardinality outside.
LEMMA SameCount == \A S : H!Cardinality(S) = Cardinality(S)
BY DEF H!Cardinality, Cardinality

\* A set of places in a sequence.
Placing(D) == IsFiniteSet(D) /\ D \subseteq Nat

\* The places of a sequence of length n, and any of them.
LEMMA Count == \A n \in Nat : Placing(1..n) /\ Cardinality(1..n) = n
BY FS_Interval DEF Placing

LEMMA SomePlaces == \A n \in Nat : \A D \in SUBSET (1..n) : Placing(D)
BY Count, FS_Subset DEF Placing

\* The ranks number the places from 1 on, each once.
LEMMA Ranks ==
    ASSUME NEW D, Placing(D)
    PROVE  /\ Cardinality(D) \in Nat
           /\ \A i \in D : Rank(D, i) \in 1..Cardinality(D)
           /\ \A i, j \in D : Rank(D, i) = Rank(D, j) => i = j
           /\ \A k \in 1..Cardinality(D) : \E i \in D : Rank(D, i) = k
<1> DEFINE Upto(i) == {j \in D : j <= i}
<1>1. IsFiniteSet(D) /\ Cardinality(D) \in Nat /\ D \subseteq Nat
  BY FS_CardinalityType DEF Placing
<1>2. ASSUME NEW i \in D
      PROVE  IsFiniteSet(Upto(i)) /\ Cardinality(Upto(i)) \in 1..Cardinality(D)
  <2>1. Upto(i) \in SUBSET D /\ i \in Upto(i)
    BY <1>1
  <2>2. IsFiniteSet(Upto(i)) /\ Cardinality(Upto(i)) <= Cardinality(D)
    BY <1>1, <2>1, FS_Subset
  <2>3. Cardinality(Upto(i)) \in Nat /\ Cardinality(Upto(i)) # 0
    BY <2>1, <2>2, FS_CardinalityType, FS_EmptySet
  <2> QED BY <1>1, <2>2, <2>3
<1>3. ASSUME NEW i \in D, NEW j \in D, i < j
      PROVE  Cardinality(Upto(i)) # Cardinality(Upto(j))
  <2>1. \A k \in D : k <= i => k <= j
    BY <1>1, <1>3
  <2>2. Upto(i) \in SUBSET Upto(j)
    BY <2>1
  <2>3. j \in Upto(j) /\ j \notin Upto(i)
    BY <1>1, <1>3
  <2> QED BY <1>2, <2>2, <2>3, FS_Subset
<1>4. \A i, j \in D : Cardinality(Upto(i)) = Cardinality(Upto(j)) => i = j
  BY <1>1, <1>3
<1> DEFINE r == [i \in D |-> Cardinality(Upto(i))]
<1>5. r \in Injection(D, 1..Cardinality(D))
  BY <1>2, <1>4 DEF Injection, IsInjective
<1>6. IsFiniteSet(1..Cardinality(D)) /\ Cardinality(1..Cardinality(D)) = Cardinality(D)
  BY <1>1, FS_Interval
<1>7. r \in Surjection(D, 1..Cardinality(D))
  BY <1>5, <1>6, FS_Injection
<1>8. \A k \in 1..Cardinality(D) : \E i \in D : Cardinality(Upto(i)) = k
  BY <1>7 DEF Surjection
<1>9. \A i : Rank(D, i) = Cardinality(Upto(i))
  BY SameCount DEF Rank
<1> QED BY <1>1, <1>2, <1>4, <1>8, <1>9

\* At lists what stands at the places by their rank.
LEMMA AtRank ==
    ASSUME NEW D, Placing(D), NEW f
    PROVE  /\ DOMAIN H!At(f, D) = 1..Cardinality(D)
           /\ \A i \in D : H!At(f, D)[Rank(D, i)] = f[i]
<1>1. DOMAIN H!At(f, D) = 1..Cardinality(D)
  BY SameCount DEF H!At
<1>2. ASSUME NEW i \in D PROVE H!At(f, D)[Rank(D, i)] = f[i]
  <2> DEFINE c == CHOOSE x \in D : H!Cardinality({j \in D : j <= x}) = Rank(D, i)
  <2>1. c \in D /\ Rank(D, c) = Rank(D, i)
    BY DEF Rank
  <2>2. c = i
    BY <2>1, Ranks
  <2>3. H!At(f, D)[Rank(D, i)] = f[c]
    <3>1. Rank(D, i) \in 1..H!Cardinality(D)
      BY Ranks, SameCount
    <3> QED BY <3>1 DEF H!At
  <2> QED BY <2>2, <2>3
<1> QED BY <1>1, <1>2

LEMMA AtRange ==
    ASSUME NEW D, Placing(D), NEW f
    PROVE  \A k \in 1..Cardinality(D) : \E i \in D : Rank(D, i) = k /\ H!At(f, D)[k] = f[i]
<1>1. ASSUME NEW k \in 1..Cardinality(D)
      PROVE  \E i \in D : Rank(D, i) = k /\ H!At(f, D)[k] = f[i]
  <2>1. PICK i \in D : Rank(D, i) = k
    BY Ranks
  <2> QED BY <2>1, AtRank
<1> QED BY <1>1

LEMMA AtType ==
    ASSUME NEW D, Placing(D), NEW f, NEW S, \A i \in D : f[i] \in S
    PROVE  H!At(f, D) \in Seq(S)
<1>1. \A k \in 1..Cardinality(D) : H!At(f, D)[k] \in S
  BY AtRange
<1>2. Cardinality(D) \in Nat
  BY Ranks
<1>3. H!At(f, D) = [k \in 1..Cardinality(D) |-> H!At(f, D)[k]]
  BY SameCount DEF H!At
<1> QED BY <1>1, <1>2, <1>3

\* h takes the places C of f to the places D of g, in order and to the same lines.
Corresponds(h, C, f, D, g) ==
    /\ h \in [C -> D]
    /\ \A i, j \in C : i < j => h[i] < h[j]
    /\ \A j \in D : \E i \in C : h[i] = j
    /\ \A i \in C : g[h[i]] = f[i]

\* Places that correspond are collected to the same sequence.
LEMMA SameAt ==
    ASSUME NEW C, Placing(C), NEW f, NEW D, Placing(D), NEW g,
           NEW h, Corresponds(h, C, f, D, g)
    PROVE  H!At(f, C) = H!At(g, D)
<1> USE DEF Corresponds
<1>0. \A i \in C : i \in Nat /\ h[i] \in D /\ h[i] \in Nat
  <2>1. C \subseteq Nat /\ D \subseteq Nat
    BY DEF Placing
  <2> QED BY <2>1
<1>1. \A i, j \in C : i <= j <=> h[i] <= h[j]
  BY <1>0
<1>2. \A i, j \in C : h[i] = h[j] => i = j
  BY <1>0
<1>3. ASSUME NEW A \in SUBSET C, NEW B \in SUBSET D, \A i \in A : h[i] \in B,
             \A j \in B : \E i \in A : h[i] = j
      PROVE  Cardinality(A) = Cardinality(B)
  <2> DEFINE b == [i \in A |-> h[i]]
  <2>1. b \in Bijection(A, B)
    BY <1>2, <1>3 DEF Bijection, Injection, Surjection, IsInjective
  <2>2. IsFiniteSet(A)
    BY FS_Subset DEF Placing
  <2> QED BY <2>1, <2>2, FS_Bijection DEF ExistsBijection
<1>4. Cardinality(C) = Cardinality(D)
  BY <1>3
<1>5. ASSUME NEW i \in C PROVE Rank(C, i) = Rank(D, h[i])
  <2> DEFINE A == {j \in C : j <= i}  B == {j \in D : j <= h[i]}
  <2>1. \A j \in A : h[j] \in B
    BY <1>1
  <2>2. \A k \in B : \E j \in A : h[j] = k
    BY <1>1
  <2>3. Cardinality(A) = Cardinality(B)
    BY <1>3, <2>1, <2>2
  <2> QED BY <2>3, SameCount DEF Rank
<1>6. ASSUME NEW k \in 1..Cardinality(C) PROVE H!At(f, C)[k] = H!At(g, D)[k]
  <2>1. PICK i \in C : Rank(C, i) = k /\ H!At(f, C)[k] = f[i]
    BY AtRange
  <2>2. H!At(g, D)[k] = g[h[i]]
    <3>1. h[i] \in D /\ Rank(D, h[i]) = k
      BY <1>5, <2>1
    <3>2. \A j \in D : H!At(g, D)[Rank(D, j)] = g[j]
      BY AtRank
    <3> QED BY <3>1, <3>2
  <2> QED BY <2>1, <2>2
<1>7. H!At(f, C) = [k \in 1..Cardinality(C) |-> H!At(f, C)[k]]
  BY SameCount DEF H!At
<1>8. H!At(g, D) = [k \in 1..Cardinality(D) |-> H!At(g, D)[k]]
  BY SameCount DEF H!At
<1> QED BY <1>4, <1>6, <1>7, <1>8

\* What is kept of a sequence is of its type, and of the set.
LEMMA KeptType ==
    ASSUME NEW T, NEW S, NEW f \in Seq(T)
    PROVE  H!Kept(f, S) \in Seq(T \cap S)
<1> DEFINE D == {i \in DOMAIN f : f[i] \in S}
<1>1. Placing(D)
  <2>1. Len(f) \in Nat /\ D \in SUBSET (1..Len(f))
    OBVIOUS
  <2> QED BY <2>1, SomePlaces
<1>2. \A i \in D : f[i] \in T \cap S
  OBVIOUS
<1>3. H!At(f, D) \in Seq(T \cap S)
  BY <1>1, <1>2, AtType
<1> QED BY <1>3 DEF H!Kept

\* Nothing of the set is lost.
LEMMA KeptHas ==
    ASSUME NEW f, Len(f) \in Nat, DOMAIN f = 1..Len(f), NEW S, NEW i \in DOMAIN f, f[i] \in S
    PROVE  \E k \in DOMAIN H!Kept(f, S) : H!Kept(f, S)[k] = f[i]
<1> DEFINE D == {j \in DOMAIN f : f[j] \in S}
<1>1. Placing(D) /\ i \in D
  <2>1. D \in SUBSET (1..Len(f))
    OBVIOUS
  <2> QED BY <2>1, SomePlaces
<1>2. Rank(D, i) \in 1..Cardinality(D)
  BY <1>1, Ranks
<1>3. /\ DOMAIN H!At(f, D) = 1..Cardinality(D)
      /\ \A j \in D : H!At(f, D)[Rank(D, j)] = f[j]
  BY <1>1, AtRank
<1> QED BY <1>1, <1>2, <1>3 DEF H!Kept

\* The collection of everything is the sequence itself.
LEMMA KeptAll ==
    ASSUME NEW S, NEW f \in Seq(S)
    PROVE  H!Kept(f, S) = f
<1> DEFINE D == {i \in DOMAIN f : f[i] \in S}
<1>1. Len(f) \in Nat /\ D = 1..Len(f)
  OBVIOUS
<1>2. Placing(D) /\ Cardinality(D) = Len(f)
  BY <1>1, Count
<1>3. ASSUME NEW i \in 1..Len(f) PROVE Rank(D, i) = i
  <2>1. {j \in D : j <= i} = 1..i
    BY <1>1
  <2>2. Cardinality(1..i) = i
    BY Count
  <2> QED BY <2>1, <2>2, SameCount DEF Rank
<1>4. ASSUME NEW i \in 1..Len(f) PROVE H!At(f, D)[i] = f[i]
  BY <1>1, <1>2, <1>3, AtRank
<1>5. H!At(f, D) = [k \in 1..Len(f) |-> H!At(f, D)[k]]
  BY <1>2, SameCount DEF H!At
<1>6. f = [k \in 1..Len(f) |-> f[k]]
  OBVIOUS
<1>7. H!Kept(f, S) = H!At(f, D)
  BY DEF H!Kept
<1> HIDE DEF D
<1> QED BY <1>4, <1>5, <1>6, <1>7

-----------------------------------------------------------------------------
(* What an update does to a file *)

\* The lines of others, domains and tags are told apart, and everything typed is a domain.
LEMMA LinesDiffer ==
    /\ Forbidden \subseteq Domains /\ Preset \in Seq(Domains) /\ Texts \subseteq Seq(Domains)
    /\ HostsFiles \subseteq Seq(H!Lines) /\ Fits \in Nat /\ MaxUpdates \in Nat
    /\ Window \notin HostsCommands
    /\ \A x \in Others : x \notin Domains /\ x # StartTag /\ x # EndTag
    /\ StartTag \notin Domains /\ EndTag \notin Domains /\ StartTag # EndTag
<1>1. Domains \cup Others \cup {StartTag, EndTag} \subseteq H!Lines
  BY DEF H!Lines
<1>2. Seq(Domains \cup Others \cup {StartTag, EndTag}) \subseteq Seq(H!Lines)
  BY <1>1, SeqMonotonic
<1> QED BY <1>2, HostsAssumption DEF H!ConstAssumption

\* The lines from a to b are erased: the last block, or nothing.
Erased(f, g, a, b) ==
    /\ a \in 1..Len(f) + 1 /\ b \in 0..Len(f) /\ a <= b + 1
    /\ g \in Seq(H!Lines) /\ Len(g) = Len(f) - (b - a + 1)
    /\ \A i \in 1..Len(g) : g[i] = IF i < a THEN f[i] ELSE f[i + (b - a + 1)]
    /\ a <= b =>
         /\ f[a] = StartTag /\ f[b] = EndTag
         /\ \A i \in H!Places(f, StartTag) : i <= a
         /\ \A i \in H!Places(f, EndTag) : i <= b
    /\ a = b + 1 =>
         /\ a = Len(f) + 1
         /\ H!Places(f, StartTag) # {} =>
              \A e \in H!Places(f, EndTag) : \E s \in H!Places(f, StartTag) : e < s

\* WithoutBlock erases the last block, or nothing.
LEMMA Erasing ==
    ASSUME NEW f \in Seq(H!Lines)
    PROVE  \E a, b \in Nat : Erased(f, H!WithoutBlock(f), a, b)
<1> DEFINE S == H!Places(f, StartTag)  E1 == H!Places(f, EndTag)  n == Len(f)
<1>1. n \in Nat /\ S \subseteq 0..n /\ E1 \subseteq 0..n /\ DOMAIN f = 1..n
  BY DEF H!Places
<1>2. CASE S # {} /\ E1 # {} /\ H!Max(S) <= H!Max(E1)
  <2> DEFINE a == H!Max(S)  b == H!Max(E1)
             p == SubSeq(f, 1, a - 1)  q == SubSeq(f, b + 1, n)  g == p \o q
  <2>1. a \in S /\ \A x \in S : x <= a
    BY <1>1, <1>2, MaxOf
  <2>2. b \in E1 /\ \A x \in E1 : x <= b
    BY <1>1, <1>2, MaxOf
  <2>3. H!WithoutBlock(f) = g
    BY <1>2 DEF H!WithoutBlock
  <2>4. a \in 1..n /\ b \in 1..n /\ a <= b /\ f[a] = StartTag /\ f[b] = EndTag
    BY <1>1, <1>2, <2>1, <2>2 DEF H!Places
  <2>5. a \in Nat /\ b \in Nat /\ n \in Nat
    BY <1>1, <2>4
  <2> HIDE DEF a, b
  <2>6. p \in Seq(H!Lines) /\ Len(p) = a - 1 /\ \A i \in 1..a - 1 : p[i] = f[i]
    BY <2>4
  <2>7. q \in Seq(H!Lines) /\ Len(q) = n - b /\ \A i \in 1..n - b : q[i] = f[b + i]
    BY <2>4
  <2> HIDE DEF p, q
  <2>8. /\ g \in Seq(H!Lines) /\ Len(g) = Len(p) + Len(q)
        /\ \A i \in 1..Len(g) : g[i] = IF i <= Len(p) THEN p[i] ELSE q[i - Len(p)]
    BY <2>6, <2>7, ConcatProperties
  <2> HIDE DEF g
  <2>9. Len(g) = n - (b - a + 1)
    BY <2>5, <2>6, <2>7, <2>8
  <2>10. ASSUME NEW i \in 1..Len(g) PROVE g[i] = IF i < a THEN f[i] ELSE f[i + (b - a + 1)]
    <3>1. CASE i < a
      <4>1. i \in 1..a - 1 /\ i <= Len(p)
        BY <2>5, <2>6, <3>1
      <4> QED BY <2>6, <2>8, <3>1, <4>1
    <3>2. CASE ~(i < a)
      <4>1. i - (a - 1) \in 1..n - b
        BY <2>4, <2>5, <2>9, <3>2
      <4>2. b + (i - (a - 1)) = i + (b - a + 1)
        BY <2>5
      <4>3. g[i] = q[i - (a - 1)]
        BY <2>5, <2>6, <2>8, <3>2
      <4>4. q[i - (a - 1)] = f[b + (i - (a - 1))]
        BY <2>7, <4>1
      <4> QED BY <3>2, <4>2, <4>3, <4>4
    <3> QED BY <3>1, <3>2
  <2>11. a <= b + 1 /\ a # b + 1 /\ a \in 1..n + 1 /\ b \in 0..n
    BY <2>4, <2>5
  <2> QED BY <2>1, <2>2, <2>3, <2>4, <2>5, <2>8, <2>9, <2>10, <2>11 DEF Erased
<1>3. CASE ~(S # {} /\ E1 # {} /\ H!Max(S) <= H!Max(E1))
  <2>1. H!WithoutBlock(f) = f
    BY <1>3 DEF H!WithoutBlock
  <2>2. ASSUME S # {}, NEW e \in E1 PROVE \E s \in S : e < s
    <3>1. H!Max(S) \in S
      BY <1>1, <2>2, MaxOf
    <3>2. e <= H!Max(E1) /\ H!Max(E1) \in E1
      BY <1>1, <2>2, MaxOf
    <3>3. ~(H!Max(S) <= H!Max(E1))
      BY <1>3, <2>2
    <3> QED BY <1>1, <3>1, <3>2, <3>3
  <2>3. Erased(f, f, n + 1, n)
    BY <1>1, <2>2 DEF Erased
  <2> QED BY <1>1, <2>1, <2>3
<1> QED BY <1>2, <1>3

\* u is g with the block of ds after it.
WithBlock(g, ds, u) ==
    /\ u \in Seq(H!Lines)
    /\ Len(u) = Len(g) + (IF ds = <<>> THEN 0 ELSE Len(ds) + 2)
    /\ \A i \in 1..Len(g) : u[i] = g[i]
    /\ ds # <<>> =>
         /\ u[Len(g) + 1] = StartTag /\ u[Len(u)] = EndTag
         /\ \A k \in 1..Len(ds) : u[Len(g) + 1 + k] = ds[k]

\* What Block adds is the block.
LEMMA Adding ==
    ASSUME NEW g \in Seq(H!Lines), NEW ds \in Seq(Domains)
    PROVE  WithBlock(g, ds, g \o H!Block(ds))
<1>1. ds \in Seq(H!Lines) /\ <<StartTag>> \in Seq(H!Lines) /\ <<EndTag>> \in Seq(H!Lines)
  <2>1. Domains \subseteq H!Lines /\ StartTag \in H!Lines /\ EndTag \in H!Lines
    BY DEF H!Lines
  <2> QED BY <2>1, SeqMonotonic
<1>2. CASE ds = <<>>
  BY <1>2 DEF WithBlock, H!Block
<1>3. CASE ds # <<>>
  <2> DEFINE k == <<StartTag>> \o ds \o <<EndTag>>
  <2>1. k \in Seq(H!Lines) /\ Len(k) = Len(ds) + 2 /\ k[1] = StartTag /\ k[Len(ds) + 2] = EndTag
    BY <1>1
  <2>2. \A i \in 1..Len(ds) : k[i + 1] = ds[i]
    BY <1>1
  <2>3. H!Block(ds) = k
    BY <1>3 DEF H!Block
  <2> HIDE DEF k
  <2>4. g \o k \in Seq(H!Lines) /\ Len(g \o k) = Len(g) + Len(ds) + 2
    BY <2>1
  <2>5. \A i \in 1..Len(g) : (g \o k)[i] = g[i]
    BY <2>1
  <2>6. \A i \in 1..Len(ds) + 2 : (g \o k)[Len(g) + i] = k[i]
    BY <2>1
  <2>7. Len(ds) \in Nat /\ Len(g) \in Nat
    OBVIOUS
  <2>8. (g \o k)[Len(g) + 1] = StartTag /\ (g \o k)[Len(g) + (Len(ds) + 2)] = EndTag
    BY <2>1, <2>6, <2>7
  <2>9. ASSUME NEW i \in 1..Len(ds) PROVE (g \o k)[Len(g) + 1 + i] = ds[i]
    <3>1. i + 1 \in 1..Len(ds) + 2 /\ Len(g) + 1 + i = Len(g) + (i + 1)
      BY <2>7
    <3> QED BY <2>2, <2>6, <3>1
  <2> QED BY <1>3, <2>3, <2>4, <2>5, <2>7, <2>8, <2>9 DEF WithBlock
<1> QED BY <1>2, <1>3

\* What lies between two numbers, neither of them.
LEMMA Inside ==
    ASSUME NEW i \in Nat, NEW m \in Nat, NEW n \in Nat, m < i, i <= m + n + 2,
           i # m + 1, i # m + n + 2
    PROVE  i - (m + 1) \in 1..n /\ i = m + 1 + (i - (m + 1))
OBVIOUS

\* So an update erases one block and adds one.
LEMMA Updating ==
    ASSUME NEW f \in Seq(H!Lines), NEW ds \in Seq(Domains)
    PROVE  \E a, b \in Nat : \E g \in Seq(H!Lines) :
             Erased(f, g, a, b) /\ WithBlock(g, ds, H!UpdatedLines(f, ds))
<1>1. PICK a \in Nat, b \in Nat : Erased(f, H!WithoutBlock(f), a, b)
  BY Erasing
<1>2. H!WithoutBlock(f) \in Seq(H!Lines)
  BY <1>1 DEF Erased
<1>3. WithBlock(H!WithoutBlock(f), ds, H!UpdatedLines(f, ds))
  BY <1>2, Adding DEF H!UpdatedLines
<1> QED BY <1>1, <1>2, <1>3

\* What is left of the tags stands before the erased block.
LEMMA TagsLeft ==
    ASSUME NEW f \in Seq(H!Lines), NEW g, NEW a \in Nat, NEW b \in Nat, Erased(f, g, a, b),
           NEW i \in 1..Len(g), g[i] \in {StartTag, EndTag}
    PROVE  i < a /\ i \in DOMAIN f /\ f[i] = g[i]
<1>1. i < a
  <2> SUFFICES ASSUME ~(i < a) PROVE FALSE
    OBVIOUS
  <2>1. a <= b /\ i \in Nat /\ Len(f) \in Nat
    BY DEF Erased
  <2>2. i + (b - a + 1) \in 1..Len(f) /\ i + (b - a + 1) > b /\ g[i] = f[i + (b - a + 1)]
    BY <2>1 DEF Erased
  <2>3. i + (b - a + 1) \in H!Places(f, StartTag) \cup H!Places(f, EndTag)
    BY <2>2 DEF H!Places
  <2> QED BY <2>1, <2>2, <2>3 DEF Erased
<1>2. i \in DOMAIN f /\ f[i] = g[i]
  <2>1. a <= Len(f) + 1 /\ Len(f) \in Nat /\ i \in Nat /\ i >= 1
    BY DEF Erased
  <2>2. i \in 1..Len(f)
    BY <1>1, <2>1
  <2>3. f[i] = g[i]
    BY <1>1 DEF Erased
  <2> QED BY <2>2, <2>3
<1> QED BY <1>1, <1>2

\* A tag of the updated file is one of the old ones, or the block's own.
LEMMA TagsNow ==
    ASSUME NEW f \in Seq(H!Lines), NEW g \in Seq(H!Lines), NEW u, NEW ds \in Seq(Domains),
           NEW a \in Nat, NEW b \in Nat, Erased(f, g, a, b), WithBlock(g, ds, u),
           NEW i \in DOMAIN u, u[i] \in {StartTag, EndTag}
    PROVE  \/ i < a /\ i <= Len(g) /\ i \in DOMAIN f /\ f[i] = u[i]
           \/ ds # <<>> /\ i = Len(g) + 1 /\ u[i] = StartTag
           \/ ds # <<>> /\ i = Len(u) /\ u[i] = EndTag
<1>1. /\ u \in Seq(H!Lines) /\ Len(g) \in Nat /\ Len(ds) \in Nat /\ i \in 1..Len(u)
      /\ Len(u) \in Nat /\ i \in Nat
  BY DEF WithBlock
<1>2. CASE i <= Len(g)
  <2>1. i \in 1..Len(g) /\ u[i] = g[i]
    BY <1>1, <1>2 DEF WithBlock
  <2> QED BY <1>2, <2>1, TagsLeft
<1>3. CASE i > Len(g)
  <2>1. ds # <<>> /\ Len(u) = Len(g) + Len(ds) + 2
    BY <1>1, <1>3 DEF WithBlock
  <2>2. ASSUME i # Len(g) + 1, i # Len(u) PROVE FALSE
    <3>0. Len(g) < i /\ i <= Len(g) + Len(ds) + 2 /\ i # Len(g) + Len(ds) + 2
      BY <1>1, <1>3, <2>1, <2>2
    <3>1. i - (Len(g) + 1) \in 1..Len(ds) /\ i = Len(g) + 1 + (i - (Len(g) + 1))
      BY <1>1, <2>2, <3>0, Inside
    <3>2. u[i] = ds[i - (Len(g) + 1)]
      BY <2>1, <3>1 DEF WithBlock
    <3>3. ds[i - (Len(g) + 1)] \in Domains
      BY <3>1
    <3> QED BY <3>2, <3>3, LinesDiffer
  <2> QED BY <2>1, <2>2, LinesDiffer DEF WithBlock
<1> QED BY <1>1, <1>2, <1>3

\* A file in order stays in order, and its only end tag is that of the new block.
LEMMA OrderedStays ==
    ASSUME NEW f \in Seq(H!Lines), NEW g \in Seq(H!Lines), NEW u, NEW ds \in Seq(Domains),
           NEW a \in Nat, NEW b \in Nat, Erased(f, g, a, b), WithBlock(g, ds, u),
           H!Ordered(f)
    PROVE  /\ H!Ordered(u)
           /\ \A e \in H!Places(u, EndTag) : ds # <<>> /\ e = Len(u)
<1>1. u \in Seq(H!Lines) /\ Len(g) \in Nat /\ Len(ds) \in Nat /\ DOMAIN u = 1..Len(u)
  BY DEF WithBlock
<1>2. ASSUME NEW e \in H!Places(u, EndTag) PROVE ds # <<>> /\ e = Len(u)
  <2>1. e \in DOMAIN u /\ u[e] = EndTag
    BY DEF H!Places
  <2>2. ASSUME e < a, e \in DOMAIN f, f[e] = EndTag PROVE FALSE
    <3>1. e \in H!Places(f, EndTag)
      BY <2>2 DEF H!Places
    <3>2. H!Places(f, StartTag) # {} /\ \A s \in H!Places(f, StartTag) : s < e /\ s \in Nat
      BY <3>1 DEF H!Ordered, H!Places
    <3>3. CASE a <= b
      <4>1. a \in H!Places(f, StartTag)
        BY <3>3 DEF Erased, H!Places
      <4> QED BY <1>1, <2>1, <2>2, <3>2, <4>1
    <3>4. CASE a = b + 1
      BY <1>1, <2>1, <3>1, <3>2, <3>4 DEF Erased
    <3>5. a <= b \/ a = b + 1
      BY DEF Erased
    <3> QED BY <3>3, <3>4, <3>5
  <2> QED BY <2>1, <2>2, TagsNow, LinesDiffer
<1>3. ASSUME NEW e \in H!Places(u, EndTag)
      PROVE  H!Places(u, StartTag) # {} /\ \A s \in H!Places(u, StartTag) : s < e
  <2>1. ds # <<>> /\ e = Len(u) /\ Len(u) = Len(g) + Len(ds) + 2
    BY <1>2 DEF WithBlock
  <2>2. Len(g) + 1 \in H!Places(u, StartTag)
    BY <1>1, <2>1 DEF H!Places, WithBlock
  <2>3. ASSUME NEW s \in H!Places(u, StartTag) PROVE s < e
    <3>1. s \in 1..Len(u) /\ u[s] = StartTag /\ u[e] = EndTag
      BY <1>1 DEF H!Places
    <3>2. s # e
      BY <3>1, LinesDiffer
    <3> QED BY <1>1, <2>1, <3>1, <3>2
  <2> QED BY <2>2, <2>3
<1> QED BY <1>2, <1>3 DEF H!Ordered

\* A file with one block or none stays one, and its start tag is that of the new block.
LEMMA ClosedStays ==
    ASSUME NEW f \in Seq(H!Lines), NEW g \in Seq(H!Lines), NEW u, NEW ds \in Seq(Domains),
           NEW a \in Nat, NEW b \in Nat, Erased(f, g, a, b), WithBlock(g, ds, u),
           H!Closed(f)
    PROVE  /\ H!Closed(u)
           /\ \A s \in H!Places(u, StartTag) : ds # <<>> /\ s = Len(g) + 1
<1>1. u \in Seq(H!Lines) /\ Len(g) \in Nat /\ Len(ds) \in Nat /\ DOMAIN u = 1..Len(u)
  BY DEF WithBlock
<1>2. H!Ordered(u) /\ \A e \in H!Places(u, EndTag) : ds # <<>> /\ e = Len(u)
  BY OrderedStays DEF H!Closed
<1>3. ASSUME NEW s \in H!Places(u, StartTag) PROVE ds # <<>> /\ s = Len(g) + 1
  <2>1. s \in DOMAIN u /\ u[s] = StartTag
    BY DEF H!Places
  <2>2. ASSUME s < a, s \in DOMAIN f, f[s] = StartTag PROVE FALSE
    <3>1. s \in H!Places(f, StartTag)
      BY <2>2 DEF H!Places
    <3>2. PICK e : e \in H!Places(f, EndTag)
      BY <3>1 DEF H!Closed
    <3>3. \A t \in H!Places(f, StartTag) : t = s /\ t < e
      BY <3>1, <3>2 DEF H!Closed, H!Ordered
    <3>4. CASE a <= b
      <4>1. a \in H!Places(f, StartTag)
        BY <3>4 DEF Erased, H!Places
      <4> QED BY <1>1, <2>1, <2>2, <3>3, <4>1
    <3>5. CASE a = b + 1
      <4>1. PICK t \in H!Places(f, StartTag) : e < t
        BY <3>1, <3>2, <3>5 DEF Erased
      <4>2. t < e /\ t \in Nat /\ e \in Nat
        BY <3>2, <3>3 DEF H!Places
      <4> QED BY <4>1, <4>2
    <3>6. a <= b \/ a = b + 1
      BY DEF Erased
    <3> QED BY <3>4, <3>5, <3>6
  <2> QED BY <2>1, <2>2, TagsNow, LinesDiffer
<1>4. ASSUME NEW s \in H!Places(u, StartTag) PROVE H!Places(u, EndTag) # {}
  <2>1. ds # <<>> /\ Len(u) \in DOMAIN u /\ u[Len(u)] = EndTag
    BY <1>1, <1>3 DEF WithBlock
  <2> QED BY <2>1 DEF H!Places
<1> QED BY <1>2, <1>3, <1>4 DEF H!Closed

\* Where no line of others is in the block, none gets into it.
LEMMA TidyStays ==
    ASSUME NEW f \in Seq(H!Lines), NEW g \in Seq(H!Lines), NEW u, NEW ds \in Seq(Domains),
           NEW a \in Nat, NEW b \in Nat, Erased(f, g, a, b), WithBlock(g, ds, u),
           H!Tidy(f)
    PROVE  H!Tidy(u)
<1>1. /\ u \in Seq(H!Lines) /\ Len(g) \in Nat /\ Len(ds) \in Nat /\ Len(f) \in Nat
      /\ DOMAIN u = 1..Len(u) /\ DOMAIN f = 1..Len(f) /\ Len(u) \in Nat
  BY DEF WithBlock
<1>0. ASSUME NEW i \in DOMAIN u, u[i] \in {StartTag, EndTag}
      PROVE  \/ i < a /\ i <= Len(g) /\ i \in DOMAIN f /\ f[i] = u[i]
             \/ ds # <<>> /\ i = Len(g) + 1 /\ u[i] = StartTag
             \/ ds # <<>> /\ i = Len(u) /\ u[i] = EndTag
  BY <1>0, TagsNow
<1> SUFFICES ASSUME NEW s \in H!Places(u, StartTag), NEW e \in H!Places(u, EndTag),
                    NEW k \in s..e, u[k] \in Others
             PROVE  \E t \in H!Places(u, StartTag) : s < t /\ t < e
  BY DEF H!Tidy
<1>2. /\ s \in DOMAIN u /\ u[s] = StartTag /\ e \in DOMAIN u /\ u[e] = EndTag
      /\ s \in Nat /\ e \in Nat /\ k \in Nat /\ s <= k /\ k <= e /\ s # e
  BY <1>1, LinesDiffer DEF H!Places
<1>3. CASE e < a /\ e <= Len(g) /\ e \in DOMAIN f /\ f[e] = u[e]
  <2>1. s < a /\ s <= Len(g) /\ s \in DOMAIN f /\ f[s] = u[s]
    BY <1>0, <1>1, <1>2, <1>3, LinesDiffer
  <2>2. ASSUME NEW i \in 1..e PROVE i \in DOMAIN u /\ i \in DOMAIN f /\ u[i] = f[i]
    <3>1. i \in 1..Len(u) /\ i \in 1..Len(f) /\ i \in 1..Len(g) /\ i < a
      BY <1>1, <1>2, <1>3
    <3> QED BY <1>1, <3>1 DEF Erased, WithBlock
  <2>3. s \in H!Places(f, StartTag) /\ e \in H!Places(f, EndTag) /\ f[k] \in Others
    BY <1>1, <1>2, <1>3, <2>1, <2>2 DEF H!Places
  <2>4. PICK t \in H!Places(f, StartTag) : s < t /\ t < e
    BY <2>3 DEF H!Tidy
  <2>5. t \in 1..e /\ f[t] = StartTag
    BY <1>1, <1>2, <2>4 DEF H!Places
  <2>6. t \in H!Places(u, StartTag)
    BY <2>2, <2>5 DEF H!Places
  <2> QED BY <2>4, <2>6
<1>4. CASE ds # <<>> /\ e = Len(u)
  <2>1. Len(g) + 1 \in H!Places(u, StartTag) /\ Len(u) = Len(g) + Len(ds) + 2
    BY <1>1, <1>4 DEF WithBlock, H!Places
  <2>2. CASE s <= Len(g)
    <3>1. s < Len(g) + 1 /\ Len(g) + 1 < e
      BY <1>1, <1>2, <1>4, <2>1, <2>2
    <3> QED BY <2>1, <3>1
  <2>3. CASE s > Len(g)
    <3>1. s = Len(g) + 1
      BY <1>0, <1>1, <1>2, <2>3, LinesDiffer
    <3>2. k # s /\ k # e
      <4>1. u[k] # StartTag /\ u[k] # EndTag
        BY LinesDiffer
      <4> QED BY <1>2, <4>1
    <3>3. /\ Len(g) < k /\ k <= Len(g) + Len(ds) + 2
          /\ k # Len(g) + 1 /\ k # Len(g) + Len(ds) + 2
      BY <1>1, <1>2, <1>4, <2>1, <3>1, <3>2
    <3>4. k - (Len(g) + 1) \in 1..Len(ds) /\ k = Len(g) + 1 + (k - (Len(g) + 1))
      <4>1. k \in Nat /\ Len(g) \in Nat /\ Len(ds) \in Nat
        BY <1>1, <1>2
      <4> QED BY <3>3, <4>1, Inside
    <3>5. u[k] = ds[k - (Len(g) + 1)]
      BY <1>4, <3>4 DEF WithBlock
    <3>6. ds[k - (Len(g) + 1)] \in Domains
      BY <3>4
    <3> QED BY <3>5, <3>6, LinesDiffer
  <2> QED BY <1>1, <1>2, <2>2, <2>3
<1> QED BY <1>0, <1>2, <1>3, <1>4, LinesDiffer

\* Where no line of others is in the block, all of them survive in order: the places
\* of theirs before and after the erasure correspond.
LEMMA OthersStay ==
    ASSUME NEW f \in Seq(H!Lines), NEW g \in Seq(H!Lines), NEW u, NEW ds \in Seq(Domains),
           NEW a \in Nat, NEW b \in Nat, Erased(f, g, a, b), WithBlock(g, ds, u),
           H!Tidy(f)
    PROVE  H!OthersIn(u) = H!OthersIn(f)
<1>1. /\ u \in Seq(H!Lines) /\ Len(g) \in Nat /\ Len(ds) \in Nat /\ Len(f) \in Nat
      /\ DOMAIN u = 1..Len(u) /\ DOMAIN f = 1..Len(f) /\ Len(u) \in Nat
  BY DEF WithBlock
<1>0. Len(g) = Len(f) - (b - a + 1) /\ a >= 1 /\ a <= Len(f) + 1 /\ b <= Len(f)
  BY <1>1 DEF Erased
<1>11. Len(u) = Len(g) + (IF ds = <<>> THEN 0 ELSE Len(ds) + 2)
  BY DEF WithBlock
<1>12. \A i \in 1..Len(g) : u[i] = g[i]
  BY DEF WithBlock
<1> DEFINE C == {i \in DOMAIN f : f[i] \in Others}
           D == {i \in DOMAIN u : u[i] \in Others}
           h == [i \in C |-> IF i < a THEN i ELSE i - (b - a + 1)]
<1>2. Placing(C) /\ Placing(D)
  BY <1>1, SomePlaces
<1>3. ASSUME NEW i \in C PROVE i < a \/ i > b
  <2> SUFFICES ASSUME a <= i, i <= b PROVE FALSE
    BY <1>1
  <2>1. a \in H!Places(f, StartTag) /\ b \in H!Places(f, EndTag) /\ i \in a..b
    BY <1>1 DEF Erased, H!Places
  <2>2. PICK t \in H!Places(f, StartTag) : a < t /\ t < b
    BY <2>1 DEF H!Tidy
  <2>3. t <= a /\ t \in Nat
    BY <1>1, <2>1, <2>2 DEF Erased, H!Places
  <2> QED BY <2>2, <2>3
<1>4. a <= b + 1
  BY DEF Erased
<1>5. ASSUME NEW i \in C PROVE h[i] \in 1..Len(g) /\ g[h[i]] = f[i]
  <2>1. i \in 1..Len(f)
    BY <1>1
  <2>2. CASE i < a
    <3>1. h[i] = i /\ i \in 1..Len(g)
      BY <1>0, <1>1, <1>4, <2>1, <2>2
    <3> QED BY <2>2, <3>1 DEF Erased
  <2>3. CASE ~(i < a)
    <3>1. i > b
      BY <1>3, <2>3
    <3>2. /\ h[i] = i - (b - a + 1) /\ i - (b - a + 1) \in 1..Len(g)
          /\ ~(i - (b - a + 1) < a) /\ i - (b - a + 1) + (b - a + 1) = i
      BY <1>0, <1>1, <1>4, <2>1, <2>3, <3>1
    <3> QED BY <3>2 DEF Erased
  <2> QED BY <2>2, <2>3
<1>6. ASSUME NEW i \in C PROVE h[i] \in D /\ u[h[i]] = f[i]
  <2> HIDE DEF h
  <2>1. h[i] \in 1..Len(g) /\ u[h[i]] = f[i]
    BY <1>5, <1>12
  <2>2. h[i] \in 1..Len(u)
    BY <1>1, <1>11, <2>1
  <2>3. f[i] \in Others
    OBVIOUS
  <2> QED BY <1>1, <2>1, <2>2, <2>3
<1>7. ASSUME NEW i \in C, NEW j \in C, i < j PROVE h[i] < h[j]
  <2>1. i \in Nat /\ j \in Nat
    BY <1>1
  <2> QED BY <1>3, <1>4, <1>7, <2>1
<1>8. ASSUME NEW j \in D PROVE \E i \in C : h[i] = j
  <2>1. j \in 1..Len(u) /\ u[j] \in Others
    BY <1>1
  <2>2. j <= Len(g)
    <3> SUFFICES ASSUME j > Len(g) PROVE FALSE
      BY <1>1, <2>1
    <3>1. ds # <<>> /\ Len(u) = Len(g) + Len(ds) + 2
      BY <1>1, <1>11, <2>1
    <3>2. j # Len(g) + 1 /\ j # Len(u)
      BY <2>1, <3>1, LinesDiffer DEF WithBlock
    <3>0. j \in Nat /\ Len(g) < j /\ j <= Len(g) + Len(ds) + 2 /\ j # Len(g) + Len(ds) + 2
      BY <1>1, <2>1, <3>1, <3>2
    <3>3. j - (Len(g) + 1) \in 1..Len(ds) /\ j = Len(g) + 1 + (j - (Len(g) + 1))
      <4>1. Len(g) \in Nat /\ Len(ds) \in Nat
        BY <1>1
      <4> QED BY <3>0, <3>2, <4>1, Inside
    <3>4. u[j] = ds[j - (Len(g) + 1)] /\ ds[j - (Len(g) + 1)] \in Domains
      BY <3>1, <3>3 DEF WithBlock
    <3> QED BY <2>1, <3>4, LinesDiffer
  <2>3. j \in 1..Len(g) /\ u[j] = g[j]
    <3>1. j \in 1..Len(g)
      BY <1>1, <2>1, <2>2
    <3> QED BY <1>12, <3>1
  <2>4. CASE j < a
    <3>0. f[j] = g[j]
      BY <2>3, <2>4 DEF Erased
    <3>1. f[j] = g[j] /\ j \in 1..Len(f)
      BY <1>0, <1>1, <2>3, <2>4, <3>0
    <3>2. j \in C /\ h[j] = j
      BY <1>1, <2>1, <2>3, <2>4, <3>1
    <3> QED BY <3>2
  <2>5. CASE ~(j < a)
    <3>1. f[j + (b - a + 1)] = g[j]
      BY <2>3, <2>5 DEF Erased
    <3>2. /\ j + (b - a + 1) \in 1..Len(f) /\ ~(j + (b - a + 1) < a)
          /\ j + (b - a + 1) - (b - a + 1) = j
      BY <1>0, <1>1, <1>4, <2>3, <2>5
    <3>3. PICK i \in Nat : i = j + (b - a + 1)
      BY <3>2
    <3>4. i \in C
      BY <1>1, <2>1, <2>3, <3>1, <3>2, <3>3
    <3>5. ~(i < a) /\ i - (b - a + 1) = j
      BY <1>1, <2>1, <3>2, <3>3
    <3>6. h[i] = j
      BY <3>4, <3>5
    <3> QED BY <3>4, <3>6
  <2> QED BY <2>4, <2>5
<1>9. h \in [C -> D]
  BY <1>6
<1>13. \A i, j \in C : i < j => h[i] < h[j]
  BY <1>7
<1>14. \A j \in D : \E i \in C : h[i] = j
  BY <1>8
<1>15. \A i \in C : u[h[i]] = f[i]
  BY <1>6
<1> HIDE DEF C, D, h
<1>16. Corresponds(h, C, f, D, u)
  BY <1>9, <1>13, <1>14, <1>15 DEF Corresponds
<1>10. H!At(f, C) = H!At(u, D)
  BY <1>2, <1>16, SameAt
<1> QED BY <1>10 DEF H!OthersIn, H!Kept, C, D

-----------------------------------------------------------------------------
(* What is read of it *)

\* A piece of a sequence, or nothing.
LEMMA Piece ==
    ASSUME NEW S, NEW f \in Seq(S), NEW m \in 1..Len(f) + 1, NEW n \in 0..Len(f)
    PROVE  SubSeq(f, m, n) \in Seq(S)
<1>1. CASE m > n
  BY <1>1, SubSeqEmpty, EmptySeq
<1>2. CASE m <= n
  BY <1>2, SubSeqProperties
<1> QED BY <1>1, <1>2

\* How long it is, and what it has.
LEMMA PieceHas ==
    ASSUME NEW S, NEW f \in Seq(S), NEW m \in 0..Len(f), NEW n \in m..Len(f)
    PROVE  /\ Len(SubSeq(f, m + 1, n)) = n - m
           /\ \A i \in 1..n - m : SubSeq(f, m + 1, n)[i] = f[m + i]
<1>1. m \in Int /\ n \in Int /\ m <= n /\ \A i \in m + 1..n : f[i] \in S
  OBVIOUS
<1>2. PICK k \in Int : k = m + 1
  BY <1>1
<1>3. /\ Len(SubSeq(f, k, n)) = IF k <= n THEN n - k + 1 ELSE 0
      /\ \A i \in 1..n - k + 1 : SubSeq(f, k, n)[i] = f[k + i - 1]
  BY <1>1, <1>2, SubSeqProperties
<1> QED BY <1>1, <1>2, <1>3

\* ReadBlockedDomains returns domains.
LEMMA ReadType ==
    ASSUME NEW f \in Seq(H!Lines)
    PROVE  H!ReadBlockedDomains(f) \in Seq(Domains)
<1> DEFINE S == H!Places(f, StartTag)  T == H!Places(f, EndTag)
           end == IF T = {} THEN Len(f) + 1 ELSE H!Min(T)
<1>1. Len(f) \in Nat /\ DOMAIN f = 1..Len(f) /\ S \subseteq Nat /\ T \subseteq Nat
  BY DEF H!Places
<1>2. CASE S = {}
  BY <1>2, EmptySeq DEF H!ReadBlockedDomains
<1>3. CASE S # {}
  <2>1. H!Min(S) \in 1..Len(f)
    BY <1>1, <1>3, MinOf DEF H!Places
  <2>2. end \in 1..Len(f) + 1
    <3>1. CASE T = {}
      BY <1>1, <3>1
    <3>2. CASE T # {}
      <4>1. H!Min(T) \in T
        BY <1>1, <3>2, MinOf
      <4> QED BY <1>1, <3>2, <4>1 DEF H!Places
    <3> QED BY <3>1, <3>2
  <2> HIDE DEF end
  <2>3. H!Min(S) + 1 \in 1..Len(f) + 1 /\ end - 1 \in 0..Len(f)
    BY <1>1, <2>1, <2>2
  <2>4. SubSeq(f, H!Min(S) + 1, end - 1) \in Seq(H!Lines)
    BY <2>3, Piece
  <2>5. H!Lines \cap Domains = Domains
    BY DEF H!Lines
  <2>6. H!Kept(SubSeq(f, H!Min(S) + 1, end - 1), Domains) \in Seq(Domains)
    BY <2>4, <2>5, KeptType
  <2> QED BY <1>3, <2>6 DEF H!ReadBlockedDomains, end
<1> QED BY <1>2, <1>3

\* UpdatedLines returns lines.
LEMMA UpdatedType ==
    ASSUME NEW f \in Seq(H!Lines), NEW ds \in Seq(Domains)
    PROVE  H!UpdatedLines(f, ds) \in Seq(H!Lines)
BY Updating DEF WithBlock

\* With the end of the added block as its only end, the file is read from its first start on.
LEMMA ReadsTheBlock ==
    ASSUME NEW f \in Seq(H!Lines), NEW g \in Seq(H!Lines), NEW u, NEW ds \in Seq(Domains),
           NEW a \in Nat, NEW b \in Nat, Erased(f, g, a, b), WithBlock(g, ds, u),
           H!Ordered(f), ds # <<>>
    PROVE  /\ H!Min(H!Places(u, StartTag)) \in H!Places(u, StartTag)
           /\ H!Min(H!Places(u, StartTag)) \in 1..Len(g) + 1
           /\ H!ReadBlockedDomains(u) =
                H!Kept(SubSeq(u, H!Min(H!Places(u, StartTag)) + 1, Len(u) - 1), Domains)
<1> DEFINE S == H!Places(u, StartTag)  T == H!Places(u, EndTag)
<1>1. /\ u \in Seq(H!Lines) /\ Len(g) \in Nat /\ Len(ds) \in Nat /\ DOMAIN u = 1..Len(u)
      /\ Len(u) \in Nat
  BY DEF WithBlock
<1>2. Len(u) = Len(g) + Len(ds) + 2 /\ u[Len(g) + 1] = StartTag /\ u[Len(u)] = EndTag
  BY DEF WithBlock
<1>3. Len(g) + 1 \in S /\ Len(u) \in T
  BY <1>1, <1>2 DEF H!Places
<1>4. S \subseteq Nat /\ T \subseteq Nat /\ \A x \in S : x >= 1
  BY <1>1 DEF H!Places
<1>5. H!Min(S) \in S /\ H!Min(S) <= Len(g) + 1
  BY <1>3, <1>4, MinOf
<1>6. H!Min(T) = Len(u)
  <2>1. H!Min(T) \in T
    BY <1>3, <1>4, MinOf
  <2>2. \A e \in T : e = Len(u)
    BY OrderedStays
  <2> QED BY <2>1, <2>2
<1>7. H!Min(S) \in 1..Len(g) + 1
  BY <1>1, <1>4, <1>5
<1>8. S # {} /\ T # {}
  BY <1>3
<1> QED BY <1>5, <1>6, <1>7, <1>8 DEF H!ReadBlockedDomains

\* With one block or none, what is read after an update is what was applied.
LEMMA ListsUpdate ==
    ASSUME NEW f \in Seq(H!Lines), NEW ds \in Seq(Domains), H!Closed(f)
    PROVE  H!Closed(H!UpdatedLines(f, ds)) /\ H!ReadBlockedDomains(H!UpdatedLines(f, ds)) = ds
<1> DEFINE u == H!UpdatedLines(f, ds)
<1>1. PICK a \in Nat, b \in Nat, g \in Seq(H!Lines) : Erased(f, g, a, b) /\ WithBlock(g, ds, u)
  BY Updating
<1> HIDE DEF u
<1>2. H!Closed(u) /\ \A s \in H!Places(u, StartTag) : ds # <<>> /\ s = Len(g) + 1
  BY <1>1, ClosedStays
<1>3. CASE ds = <<>>
  <2>1. H!Places(u, StartTag) = {}
    BY <1>2, <1>3
  <2> QED BY <1>2, <1>3, <2>1 DEF H!ReadBlockedDomains, u
<1>4. CASE ds # <<>>
  <2>1. /\ u \in Seq(H!Lines) /\ Len(g) \in Nat /\ Len(ds) \in Nat /\ Len(u) \in Nat
        /\ Len(u) = Len(g) + Len(ds) + 2 /\ \A k \in 1..Len(ds) : u[Len(g) + 1 + k] = ds[k]
    BY <1>1, <1>4 DEF WithBlock
  <2>2. H!Ordered(f)
    BY DEF H!Closed
  <2>3. /\ H!Min(H!Places(u, StartTag)) = Len(g) + 1
        /\ H!ReadBlockedDomains(u) =
             H!Kept(SubSeq(u, H!Min(H!Places(u, StartTag)) + 1, Len(u) - 1), Domains)
    BY <1>1, <1>2, <1>4, <2>2, ReadsTheBlock
  <2> DEFINE v == SubSeq(u, Len(g) + 2, Len(u) - 1)
  <2>4. Len(g) + 2 \in 1..Len(u) + 1 /\ Len(u) - 1 \in (Len(g) + 2) - 1..Len(u)
    BY <2>1
  <2>5. /\ v \in Seq(H!Lines) /\ Len(v) = Len(ds)
        /\ \A k \in 1..Len(ds) : v[k] = u[Len(g) + 1 + k]
    BY <2>1, <2>4
  <2>6. v = ds
    <3> HIDE DEF v
    <3>1. \A k \in 1..Len(ds) : v[k] = ds[k]
      BY <2>1, <2>5
    <3>2. ds \in Seq(H!Lines)
      BY SeqMonotonic DEF H!Lines
    <3> QED BY <2>5, <3>1, <3>2, SeqEqual
  <2>7. Len(g) + 1 + 1 = Len(g) + 2
    BY <2>1
  <2>8. H!ReadBlockedDomains(u) = H!Kept(v, Domains)
    BY <2>3, <2>7
  <2> QED BY <1>2, <2>6, <2>8, KeptAll DEF u
<1> QED BY <1>3, <1>4

\* With the ends in order, what is read after an update has all that was applied.
LEMMA HoldsUpdate ==
    ASSUME NEW f \in Seq(H!Lines), NEW ds \in Seq(Domains), H!Ordered(f)
    PROVE  /\ H!Ordered(H!UpdatedLines(f, ds))
           /\ H!Range(ds) \subseteq H!Range(H!ReadBlockedDomains(H!UpdatedLines(f, ds)))
<1> DEFINE u == H!UpdatedLines(f, ds)
<1>1. PICK a \in Nat, b \in Nat, g \in Seq(H!Lines) : Erased(f, g, a, b) /\ WithBlock(g, ds, u)
  BY Updating
<1> HIDE DEF u
<1>2. H!Ordered(u)
  BY <1>1, OrderedStays
<1>3. ASSUME NEW k \in DOMAIN ds PROVE ds[k] \in H!Range(H!ReadBlockedDomains(u))
  <2>0. ds # <<>>
    OBVIOUS
  <2> DEFINE m == H!Min(H!Places(u, StartTag))  v == SubSeq(u, m + 1, Len(u) - 1)
  <2>1. /\ u \in Seq(H!Lines) /\ Len(g) \in Nat /\ Len(ds) \in Nat /\ Len(u) \in Nat
        /\ Len(u) = Len(g) + Len(ds) + 2 /\ k \in 1..Len(ds) /\ u[Len(g) + 1 + k] = ds[k]
    <3>1. k \in 1..Len(ds)
      OBVIOUS
    <3>2. u \in Seq(H!Lines) /\ Len(u) = Len(g) + Len(ds) + 2
      BY <1>1, <2>0 DEF WithBlock
    <3>3. \A i \in 1..Len(ds) : u[Len(g) + 1 + i] = ds[i]
      BY <1>1, <2>0 DEF WithBlock
    <3> QED BY <3>1, <3>2, <3>3
  <2>2. m \in 1..Len(g) + 1 /\ H!ReadBlockedDomains(u) = H!Kept(v, Domains)
    BY <1>1, <2>0, ReadsTheBlock
  <2> HIDE DEF m
  <2>3. m + 1 \in 1..Len(u) + 1 /\ Len(u) - 1 \in (m + 1) - 1..Len(u)
    BY <2>1, <2>2
  <2>4. v \in Seq(H!Lines) /\ Len(v) = Len(u) - 1 - m /\ \A i \in 1..Len(u) - 1 - m : v[i] = u[m + i]
    <3>1. m \in Nat /\ m + 1 \in 1..Len(u) + 1 /\ Len(u) - 1 \in m..Len(u)
      BY <2>1, <2>2, <2>3
    <3>2. v \in Seq(H!Lines)
      BY <2>1, <3>1, Piece
    <3>3. m \in 0..Len(u) /\ Len(u) - 1 \in m..Len(u)
      BY <2>1, <3>1
    <3>4. PICK n \in m..Len(u) : n = Len(u) - 1
      BY <3>3
    <3>5. Len(v) = n - m /\ \A i \in 1..n - m : v[i] = u[m + i]
      BY <2>1, <3>3, <3>4, PieceHas
    <3> QED BY <3>2, <3>4, <3>5
  <2>5. Len(g) + 1 + k - m \in 1..Len(u) - 1 - m /\ m + (Len(g) + 1 + k - m) = Len(g) + 1 + k
    BY <2>1, <2>2
  <2> HIDE DEF v
  <2>6. Len(g) + 1 + k - m \in DOMAIN v /\ v[Len(g) + 1 + k - m] = ds[k]
    BY <2>1, <2>4, <2>5
  <2>7. ds[k] \in Domains
    OBVIOUS
  <2>8. \E i \in DOMAIN H!Kept(v, Domains) : H!Kept(v, Domains)[i] = ds[k]
    <3>1. Len(v) \in Nat /\ DOMAIN v = 1..Len(v)
      BY <2>4
    <3> QED BY <2>6, <2>7, <3>1, KeptHas
  <2> QED BY <2>2, <2>8 DEF H!Range
<1> QED BY <1>2, <1>3 DEF u, H!Range

\* An update keeps the lines of others.
LEMMA KeepsUpdate ==
    ASSUME NEW f \in Seq(H!Lines), NEW ds \in Seq(Domains), H!Tidy(f)
    PROVE  /\ H!Tidy(H!UpdatedLines(f, ds))
           /\ H!OthersIn(H!UpdatedLines(f, ds)) = H!OthersIn(f)
<1> DEFINE u == H!UpdatedLines(f, ds)
<1>1. PICK a \in Nat, b \in Nat, g \in Seq(H!Lines) : Erased(f, g, a, b) /\ WithBlock(g, ds, u)
  BY Updating
<1> HIDE DEF u
<1>2. H!Tidy(u) /\ H!OthersIn(u) = H!OthersIn(f)
  BY <1>1, TidyStays, OthersStay
<1> QED BY <1>2 DEF u

\* The beginning of a file in order is in order.
LEMMA OrderedPrefix ==
    ASSUME NEW f \in Seq(H!Lines), NEW n \in 0..Len(f), H!Ordered(f)
    PROVE  H!Ordered(SubSeq(f, 1, n))
<1> DEFINE p == SubSeq(f, 1, n)
<1>1. DOMAIN p = 1..n /\ \A i \in 1..n : i \in DOMAIN f /\ p[i] = f[i]
  OBVIOUS
<1> HIDE DEF p
<1> SUFFICES ASSUME NEW e \in H!Places(p, EndTag)
             PROVE  H!Places(p, StartTag) # {} /\ \A s \in H!Places(p, StartTag) : s < e
  BY DEF H!Ordered, p
<1>2. e \in 1..n /\ e \in H!Places(f, EndTag)
  BY <1>1 DEF H!Places
<1>3. PICK s : s \in H!Places(f, StartTag)
  BY <1>2 DEF H!Ordered
<1>4. \A t \in H!Places(f, StartTag) : t < e /\ t \in 1..Len(f)
  BY <1>2 DEF H!Ordered, H!Places
<1>5. s \in H!Places(p, StartTag)
  <2>1. s \in 1..n /\ f[s] = StartTag
    BY <1>2, <1>3, <1>4 DEF H!Places
  <2> QED BY <1>1, <2>1 DEF H!Places
<1>6. H!Places(p, StartTag) \subseteq H!Places(f, StartTag)
  BY <1>1 DEF H!Places
<1> QED BY <1>4, <1>5, <1>6

-----------------------------------------------------------------------------
(* The hosts file through any number of updates *)

\* The text of the dialog is domains, and so is what is made of it.
LEMMA FitType ==
    ASSUME NEW t \in Seq(Domains)
    PROVE  H!Fit(t) \in Seq(Domains)
<1>1. (IF Len(t) < Fits THEN Len(t) ELSE Fits) \in 0..Len(t)
  BY LinesDiffer
<1>2. 1 \in 1..Len(t) + 1
  OBVIOUS
<1> QED BY <1>1, <1>2, Piece DEF H!Fit

LEMMA OnceType ==
    ASSUME NEW t \in Seq(Domains)
    PROVE  H!Once(t) \in Seq(Domains)
<1> DEFINE D == {i \in DOMAIN t : \A j \in 1..(i - 1) : t[j] # t[i]}
<1>1. Placing(D)
  <2>1. Len(t) \in Nat /\ D \in SUBSET (1..Len(t))
    OBVIOUS
  <2> QED BY <2>1, SomePlaces
<1>2. \A i \in D : t[i] \in Domains
  OBVIOUS
<1>3. H!At(t, D) \in Seq(Domains)
  BY <1>1, <1>2, AtType
<1> QED BY <1>3 DEF H!Once

\* What is on disk after the next piece.
LEMMA WrittenType ==
    ASSUME NEW l \in Seq(H!Lines), NEW f \in Seq(H!Lines), NEW w \in Nat, NEW n \in (w + 1)..Len(l)
    PROVE  [i \in 1..H!Max({n, Len(f)}) |->
              CASE i \in (w + 1)..n -> l[i]
                [] i \in DOMAIN f \ ((w + 1)..n) -> f[i]
                [] OTHER -> Hole] \in Seq(H!Lines)
<1>1. n \in Nat /\ Len(f) \in Nat /\ {n, Len(f)} \in SUBSET (0..n + Len(f))
  OBVIOUS
<1>2. H!Max({n, Len(f)}) \in Nat
  <2>1. H!Max({n, Len(f)}) \in {n, Len(f)}
    BY <1>1 DEF H!Max
  <2> QED BY <1>1, <2>1
<1>3. Hole \in H!Lines
  BY DEF H!Lines
<1>4. \A i \in (w + 1)..n : l[i] \in H!Lines
  OBVIOUS
<1>5. \A i \in DOMAIN f : f[i] \in H!Lines
  OBVIOUS
<1> DEFINE at(i) == CASE i \in (w + 1)..n -> l[i]
                     [] i \in DOMAIN f \ ((w + 1)..n) -> f[i]
                     [] OTHER -> Hole
<1>6. \A i \in 1..H!Max({n, Len(f)}) : at(i) \in H!Lines
  BY <1>3, <1>4, <1>5
<1> HIDE DEF at
<1> DEFINE m == H!Max({n, Len(f)})  x == [i \in 1..m |-> at(i)]
<1>7. m \in Nat /\ x \in [1..m -> H!Lines]
  BY <1>2, <1>6
<1>8. x \in Seq(H!Lines)
  <2> HIDE DEF m, x
  <2>1. x \in UNION {[1..k -> H!Lines] : k \in Nat}
    BY <1>7
  <2> QED BY <2>1, SeqDef
<1> QED BY <1>8 DEF at

\* The invariant holds before any process touches the file.
LEMMA HostsInit == H!Init => H!FileInv
<1> SUFFICES ASSUME H!Init PROVE H!FileInv
  OBVIOUS
<1>1. file \in Seq(H!Lines) /\ first = file
  BY LinesDiffer DEF H!Init
<1>2. applied \in Seq(Domains)
  BY <1>1, ReadType DEF H!Init
<1>3. H!TypeOK
  <2>1. <<>> \in Seq(Domains) /\ <<>> \in Seq(H!Lines) /\ 0 \in 0..MaxUpdates
    BY LinesDiffer, EmptySeq
  <2>2. first \in HostsFiles
    BY DEF H!Init
  <2> QED BY <1>1, <1>2, <2>1, <2>2 DEF H!Init, H!TypeOK
<1>4. H!Progress /\ H!OneWriter /\ H!LinesAreSound
  BY DEF H!Init, H!Progress, H!OneWriter, H!LinesAreSound, H!Writing
<1>5. H!RestIsSound
  BY DEF H!Init, H!RestIsSound, H!Keeps, H!Lists
<1> QED BY <1>3, <1>4, <1>5 DEF H!FileInv

\* Every step keeps the types.
LEMMA HostsTypeStep == H!TypeOK /\ [H!Next]_H!vars => H!TypeOK'
<1> SUFFICES ASSUME H!TypeOK, [H!Next]_H!vars PROVE H!TypeOK'
  OBVIOUS
<1> USE DEF H!TypeOK, H!Goto, H!Writing, H!dialog, H!history
<1>0. /\ Fits \in Nat /\ MaxUpdates \in Nat /\ <<>> \in Seq(Domains) /\ <<>> \in Seq(H!Lines)
      /\ Window \in H!Processes /\ HostsCommands \subseteq H!Processes
  BY LinesDiffer, EmptySeq DEF H!Processes
<1>1. CASE H!OpenSiteBan
  <2>1. H!Fit(H!ReadBlockedDomains(file)) \in Seq(Domains)
    BY ReadType, FitType
  <2> QED BY <1>1, <2>1 DEF H!OpenSiteBan
<1>2. CASE H!EditText
  <2>1. PICK t \in Texts \cup {Preset, <<>>} : text' = H!Fit(t)
    BY <1>2 DEF H!EditText
  <2>2. text' \in Seq(Domains)
    BY <1>0, <2>1, FitType, LinesDiffer
  <2> QED BY <1>2, <2>2 DEF H!EditText
<1>3. CASE H!CloseDialog
  BY <1>3 DEF H!CloseDialog
<1>4. ASSUME NEW p \in H!Processes, NEW ds \in Seq(Domains), H!Update(p, ds),
             UNCHANGED <<file, elevated, lines, written, H!dialog, H!history>>
      PROVE  H!TypeOK'
  BY <1>0, <1>4 DEF H!Update
<1>5. CASE H!ApplyBan
  BY <1>0, <1>4, <1>5, OnceType DEF H!ApplyBan
<1>6. ASSUME NEW p \in HostsCommands, NEW ds \in Seq(Domains), H!Command(p, ds)
      PROVE  H!TypeOK'
  BY <1>0, <1>4, <1>6 DEF H!Command
<1>7. ASSUME NEW p \in HostsCommands, NEW d \in Domains, H!HostsBan(p, d) PROVE H!TypeOK'
  <2>1. H!ReadBlockedDomains(file) \in Seq(Domains)
    BY ReadType
  <2>2. Append(H!ReadBlockedDomains(file), d) \in Seq(Domains)
    BY <2>1, AppendProperties
  <2>3. \E ds \in Seq(Domains) : H!Command(p, ds)
    BY <1>7, <2>1, <2>2 DEF H!HostsBan
  <2> QED BY <1>6, <2>3
<1>8. ASSUME NEW p \in HostsCommands, NEW d \in Domains, H!HostsUnban(p, d) PROVE H!TypeOK'
  <2>1. H!ReadBlockedDomains(file) \in Seq(Domains)
    BY ReadType
  <2>2. H!Kept(H!ReadBlockedDomains(file), Domains \ {d}) \in Seq(Domains \cap (Domains \ {d}))
    BY <2>1, KeptType
  <2>3. H!Kept(H!ReadBlockedDomains(file), Domains \ {d}) \in Seq(Domains)
    BY <2>2, SeqMonotonic
  <2> QED BY <1>6, <1>8, <2>3 DEF H!HostsUnban
<1>9. ASSUME NEW p \in HostsCommands, H!HostsClear(p) PROVE H!TypeOK'
  BY <1>0, <1>6, <1>9 DEF H!HostsClear
<1>10. ASSUME NEW p \in H!Processes, H!ReadLines(p) PROVE H!TypeOK'
  <2>1. H!UpdatedLines(file, domains[p]) \in Seq(H!Lines)
    BY UpdatedType
  <2>2. mixed' \in BOOLEAN
    BY <1>10 DEF H!ReadLines
  <2> QED BY <1>10, <2>1, <2>2 DEF H!ReadLines
<1>11. ASSUME NEW p \in H!Processes, H!Truncate(p) PROVE H!TypeOK'
  <2>1. CASE p \in elevated
    <3>1. mixed' \in BOOLEAN
      BY <1>11, <2>1 DEF H!Truncate
    <3> QED BY <1>0, <1>11, <2>1, <3>1 DEF H!Truncate
  <2>2. CASE p \notin elevated
    <3>1. open' \in BOOLEAN /\ loaded' \in BOOLEAN /\ text' \in Seq(Domains)
      BY <1>11, <2>2 DEF H!Truncate, H!Done
    <3>2. H!Finish(p) /\ UNCHANGED <<file, mixed, elevated, runs, first, applied, cut>>
      BY <1>11, <2>2 DEF H!Truncate
    <3> QED BY <1>0, <3>1, <3>2 DEF H!Finish
  <2> QED BY <2>1, <2>2
<1>12. ASSUME NEW p \in H!Processes, H!WriteLines(p) PROVE H!TypeOK'
  <2>1. PICK n \in (written[p] + 1)..Len(lines[p]) :
          /\ file' = [i \in 1..H!Max({n, Len(file)}) |->
                        CASE i \in (written[p] + 1)..n -> lines[p][i]
                          [] i \in DOMAIN file \ ((written[p] + 1)..n) -> file[i]
                          [] OTHER -> Hole]
          /\ written' = [written EXCEPT ![p] = n]
    BY <1>12 DEF H!WriteLines
  <2>2. file' \in Seq(H!Lines)
    <3>1. lines[p] \in Seq(H!Lines) /\ file \in Seq(H!Lines) /\ written[p] \in Nat
      OBVIOUS
    <3> HIDE DEF H!TypeOK
    <3> QED BY <2>1, <3>1, WrittenType
  <2>3. n \in Nat
    OBVIOUS
  <2>4. written' \in [H!Processes -> Nat]
    BY <2>1, <2>3
  <2> QED BY <1>12, <2>2, <2>4 DEF H!WriteLines
<1>13. ASSUME NEW p \in H!Processes, H!Close(p) PROVE H!TypeOK'
  BY <1>0, <1>13 DEF H!Close, H!Finish, H!Done
<1>14. ASSUME NEW p \in H!Processes, H!DiskFull(p) PROVE H!TypeOK'
  BY <1>0, <1>14 DEF H!DiskFull, H!Finish, H!Done
<1>15. ASSUME NEW p \in H!Processes, H!Kill(p) PROVE H!TypeOK'
  <2>1. cut' \in BOOLEAN
    BY <1>15 DEF H!Kill
  <2>2. open' \in BOOLEAN /\ loaded' \in BOOLEAN /\ text' \in Seq(Domains)
    BY <1>0, <1>15 DEF H!Kill
  <2> QED BY <1>0, <1>15, <2>1, <2>2 DEF H!Kill, H!Finish
<1>16. CASE UNCHANGED H!vars
  BY <1>16 DEF H!vars
<1> QED BY <1>1, <1>2, <1>3, <1>5, <1>7, <1>8, <1>9, <1>10, <1>11, <1>12, <1>13, <1>14, <1>15, <1>16 DEF H!Next

\* The parts of the invariant besides the types.
Sound == H!Progress /\ H!OneWriter /\ H!RestIsSound /\ H!LinesAreSound

\* A process may do anything but write, and give up its lines.
LEMMA BesidesTheFile ==
    ASSUME Sound, UNCHANGED <<file, first, applied, cut, mixed>>,
           \A p \in H!Processes :
             \/ UNCHANGED <<hStage[p], domains[p], lines[p], written[p]>>
             \/ /\ hStage[p] # "write" /\ hStage'[p] \notin {"truncate", "write"}
                /\ written'[p] = 0
    PROVE  Sound'
<1>1. \A p \in H!Processes : H!Writing(p)' <=> H!Writing(p)
  BY DEF H!Writing
<1>2. \A p \in H!Processes : H!Writing(p)' => UNCHANGED <<hStage[p], domains[p], lines[p], written[p]>>
  BY DEF H!Writing
<1>3. \A p \in H!Processes : hStage'[p] \in {"truncate", "write"} =>
        UNCHANGED <<hStage[p], domains[p], lines[p], written[p]>>
  OBVIOUS
<1>4. H!Progress'
  BY <1>1, <1>2 DEF Sound, H!Progress
<1>5. H!OneWriter'
  BY <1>1, <1>2 DEF Sound, H!OneWriter
<1>6. H!RestIsSound'
  BY <1>1 DEF Sound, H!RestIsSound, H!AtRest, H!Keeps, H!Lists
<1>7. H!LinesAreSound'
  BY <1>3 DEF Sound, H!LinesAreSound, H!Holds, H!Keeps, H!Lists
<1> QED BY <1>4, <1>5, <1>6, <1>7 DEF Sound

\* A process that writes ends: at the end of its lines, or cut off.
LEMMA WritingEnds ==
    ASSUME H!TypeOK, Sound, NEW p \in H!Processes, hStage[p] = "write", hStage'[p] = "idle",
           written'[p] = 0, UNCHANGED <<file, first, mixed>>,
           \/ cut'
           \/ cut' = cut /\ applied' = domains[p] /\ written[p] = Len(lines[p]),
           \A q \in H!Processes \ {p} : UNCHANGED <<hStage[q], domains[q], lines[q], written[q]>>
    PROVE  Sound'
<1>1. \A q \in H!Processes \ {p} : H!Writing(q)' <=> H!Writing(q)
  BY DEF H!Writing
<1>2. H!Writing(p) /\ ~H!Writing(p)'
  BY DEF H!Writing
<1>3. H!Progress'
  BY <1>1, <1>2 DEF Sound, H!Progress
<1>4. H!OneWriter'
  BY <1>1, <1>2 DEF Sound, H!OneWriter
<1>5. H!LinesAreSound'
  BY DEF Sound, H!LinesAreSound, H!Holds, H!Keeps, H!Lists
<1>6. H!RestIsSound'
  <2> SUFFICES ASSUME ~mixed
               PROVE  /\ H!Ordered(first) => H!Ordered(file)
                      /\ ~cut' => H!Keeps(file)' /\ H!Lists(file, applied)'
    BY DEF H!RestIsSound
  <2>1. file = SubSeq(lines[p], 1, written[p]) /\ written[p] <= Len(lines[p])
    BY <1>2 DEF Sound, H!OneWriter, H!Progress
  <2>2. lines[p] \in Seq(H!Lines) /\ written[p] \in Nat
    BY DEF H!TypeOK
  <2>3. H!Holds(lines[p], domains[p]) /\ (~cut => H!Keeps(lines[p]) /\ H!Lists(lines[p], domains[p]))
    BY DEF Sound, H!LinesAreSound
  <2>4. H!Ordered(first) => H!Ordered(file)
    <3>1. written[p] \in 0..Len(lines[p])
      BY <2>1, <2>2
    <3> QED BY <2>1, <2>2, <2>3, <3>1, OrderedPrefix DEF H!Holds
  <2>5. ASSUME ~cut' PROVE H!Keeps(file)' /\ H!Lists(file, applied)'
    <3>1. ~cut /\ applied' = domains[p] /\ written[p] = Len(lines[p])
      BY <2>5
    <3>2. file = lines[p]
      BY <2>1, <2>2, <3>1, SubSeqFull
    <3> QED BY <2>3, <3>1, <3>2 DEF H!Keeps, H!Lists
  <2> QED BY <2>4, <2>5
<1> QED BY <1>3, <1>4, <1>5, <1>6 DEF Sound

\* Every step keeps the other parts.
LEMMA SoundStep == H!TypeOK /\ Sound /\ [H!Next]_H!vars => Sound'
<1> SUFFICES ASSUME H!TypeOK, Sound, [H!Next]_H!vars PROVE Sound'
  OBVIOUS
<1> USE DEF H!Goto, H!dialog, H!history
<1>0. Window \in H!Processes /\ HostsCommands \subseteq H!Processes
  BY DEF H!Processes
<1>1. CASE H!OpenSiteBan
  BY <1>1, BesidesTheFile DEF H!OpenSiteBan
<1>2. CASE H!EditText
  BY <1>2, BesidesTheFile DEF H!EditText
<1>3. CASE H!CloseDialog
  BY <1>3, BesidesTheFile DEF H!CloseDialog
<1>4. ASSUME NEW p \in H!Processes, NEW ds, H!Update(p, ds), hStage[p] = "idle",
             UNCHANGED <<file, elevated, lines, written, H!dialog, H!history>>
      PROVE  Sound'
  <2>1. hStage'[p] = "read" /\ written'[p] = 0
    BY <1>4 DEF H!Update, H!TypeOK, Sound, H!Progress, H!Writing
  <2>2. \A q \in H!Processes \ {p} : UNCHANGED <<hStage[q], domains[q], lines[q], written[q]>>
    BY <1>4 DEF H!Update, H!TypeOK
  <2> QED BY <1>4, <2>1, <2>2, BesidesTheFile
<1>5. CASE H!ApplyBan
  BY <1>0, <1>4, <1>5 DEF H!ApplyBan
<1>6. ASSUME NEW p \in HostsCommands, NEW ds, H!Command(p, ds) PROVE Sound'
  BY <1>0, <1>4, <1>6 DEF H!Command
<1>7. ASSUME NEW p \in HostsCommands, NEW d \in Domains, H!HostsBan(p, d) PROVE Sound'
  BY <1>6, <1>7 DEF H!HostsBan
<1>8. ASSUME NEW p \in HostsCommands, NEW d \in Domains, H!HostsUnban(p, d) PROVE Sound'
  BY <1>6, <1>8 DEF H!HostsUnban
<1>9. ASSUME NEW p \in HostsCommands, H!HostsClear(p) PROVE Sound'
  BY <1>6, <1>9 DEF H!HostsClear
<1>10. ASSUME NEW p \in H!Processes, H!ReadLines(p) PROVE Sound'
  <2>1. /\ hStage[p] = "read" /\ hStage'[p] = "truncate"
        /\ lines'[p] = H!UpdatedLines(file, domains[p])
        /\ UNCHANGED <<file, domains, written, first, applied, cut>>
        /\ mixed' = (mixed \/ H!OtherWrites(p))
        /\ \A q \in H!Processes \ {p} : UNCHANGED <<hStage[q], lines[q]>>
    BY <1>10 DEF H!ReadLines, H!TypeOK
  <2>2. \A q \in H!Processes : H!Writing(q)' <=> H!Writing(q)
    BY <2>1 DEF H!Writing
  <2>3. \A q \in H!Processes : H!Writing(q) => lines'[q] = lines[q]
    BY <2>1 DEF H!Writing
  <2>4. H!Progress'
    BY <2>1, <2>2, <2>3 DEF Sound, H!Progress
  <2>5. H!OneWriter'
    BY <2>1, <2>2, <2>3 DEF Sound, H!OneWriter
  <2>6. H!RestIsSound'
    BY <2>1, <2>2 DEF Sound, H!RestIsSound, H!AtRest, H!Keeps, H!Lists
  <2>7. H!LinesAreSound'
    <3> SUFFICES ASSUME ~mixed',
                        NEW q \in H!Processes, hStage'[q] \in {"truncate", "write"}
                 PROVE  /\ H!Holds(lines[q], domains[q])'
                        /\ ~cut' => H!Keeps(lines[q])' /\ H!Lists(lines[q], domains[q])'
      BY DEF H!LinesAreSound
    <3>1. CASE q # p
      BY <2>1, <3>1 DEF Sound, H!LinesAreSound, H!Holds, H!Keeps, H!Lists
    <3>2. CASE q = p
      <4>1. H!AtRest /\ ~mixed
        BY <2>1, <3>2 DEF H!AtRest, H!OtherWrites, H!Writing
      <4>2. /\ H!Ordered(first) => H!Ordered(file)
            /\ ~cut => H!Keeps(file) /\ H!Lists(file, applied)
        BY <4>1 DEF Sound, H!RestIsSound
      <4>3. file \in Seq(H!Lines) /\ domains[p] \in Seq(Domains)
        BY DEF H!TypeOK
      <4>4. H!Holds(lines[q], domains[q])'
        BY <2>1, <3>2, <4>2, <4>3, HoldsUpdate DEF H!Holds
      <4>5. ASSUME ~cut' PROVE H!Keeps(lines[q])' /\ H!Lists(lines[q], domains[q])'
        BY <2>1, <3>2, <4>2, <4>3, <4>5, KeepsUpdate, ListsUpdate DEF H!Keeps, H!Lists
      <4> QED BY <4>4, <4>5
    <3> QED BY <3>1, <3>2
  <2> QED BY <2>4, <2>5, <2>6, <2>7 DEF Sound
<1>11. ASSUME NEW p \in H!Processes, H!Truncate(p) PROVE Sound'
  <2>1. CASE p \in elevated
    <3>1. /\ hStage[p] = "truncate" /\ hStage'[p] = "write" /\ file' = <<>>
          /\ mixed' = (mixed \/ H!OtherWrites(p))
          /\ UNCHANGED <<domains, lines, written, first, applied, cut>>
          /\ \A q \in H!Processes \ {p} : hStage'[q] = hStage[q]
      BY <1>11, <2>1 DEF H!Truncate, H!TypeOK
    <3>2. written[p] = 0 /\ lines[p] \in Seq(H!Lines)
      BY <3>1 DEF Sound, H!Progress, H!Writing, H!TypeOK
    <3>3. H!Writing(p)' /\ \A q \in H!Processes \ {p} : H!Writing(q)' <=> H!Writing(q)
      BY <3>1 DEF H!Writing
    <3>4. H!Progress'
      BY <3>1, <3>2, <3>3 DEF Sound, H!Progress
    <3>5. H!OneWriter'
      <4> SUFFICES ASSUME ~mixed' PROVE H!OneWriter'
        BY DEF H!OneWriter
      <4>1. \A q \in H!Processes \ {p} : ~H!Writing(q)'
        BY <3>1, <3>3 DEF H!OtherWrites
      <4>2. SubSeq(lines[p], 1, written[p]) = <<>>
        BY <3>2, SubSeqEmpty
      <4> QED BY <3>1, <4>1, <4>2 DEF H!OneWriter
    <3>6. H!RestIsSound'
      BY <3>3 DEF H!RestIsSound, H!AtRest
    <3>7. H!LinesAreSound'
      BY <3>1 DEF Sound, H!LinesAreSound, H!Holds, H!Keeps, H!Lists
    <3> QED BY <3>4, <3>5, <3>6, <3>7 DEF Sound
  <2>2. CASE p \notin elevated
    <3>1. /\ hStage[p] = "truncate" /\ hStage'[p] = "idle" /\ written'[p] = 0
          /\ UNCHANGED <<file, first, applied, cut, mixed>>
          /\ \A q \in H!Processes \ {p} : UNCHANGED <<hStage[q], domains[q], lines[q], written[q]>>
      BY <1>11, <2>2 DEF H!Truncate, H!Finish, H!TypeOK
    <3> QED BY <3>1, BesidesTheFile
  <2> QED BY <2>1, <2>2
<1>12. ASSUME NEW p \in H!Processes, H!WriteLines(p) PROVE Sound'
  <2>1. PICK n \in (written[p] + 1)..Len(lines[p]) :
          /\ file' = [i \in 1..H!Max({n, Len(file)}) |->
                        CASE i \in (written[p] + 1)..n -> lines[p][i]
                          [] i \in DOMAIN file \ ((written[p] + 1)..n) -> file[i]
                          [] OTHER -> Hole]
          /\ written' = [written EXCEPT ![p] = n]
    BY <1>12 DEF H!WriteLines
  <2>2. hStage[p] = "write" /\ UNCHANGED <<hStage, domains, lines, first, applied, cut, mixed>>
    BY <1>12 DEF H!WriteLines, H!Writing
  <2>3. /\ n \in Nat /\ n <= Len(lines[p]) /\ written[p] \in Nat /\ lines[p] \in Seq(H!Lines)
        /\ written[p] < n
    BY DEF H!TypeOK
  <2>4. written'[p] = n /\ \A q \in H!Processes \ {p} : written'[q] = written[q]
    BY <2>1 DEF H!TypeOK
  <2>5. \A q \in H!Processes : H!Writing(q)' <=> H!Writing(q)
    BY <2>2 DEF H!Writing
  <2>6. H!Writing(p)
    BY <2>2 DEF H!Writing
  <2>7. H!Progress'
    BY <2>2, <2>3, <2>4, <2>5, <2>6 DEF Sound, H!Progress
  <2>8. H!OneWriter'
    <3> SUFFICES ASSUME ~mixed PROVE H!OneWriter'
      BY <2>2 DEF H!OneWriter
    <3>1. file = SubSeq(lines[p], 1, written[p])
      BY <2>6 DEF Sound, H!OneWriter
    <3>2. \A q \in H!Processes : H!Writing(q) => q = p
      BY <2>6 DEF Sound, H!OneWriter
    <3>3. /\ Len(file) = written[p] /\ DOMAIN file = 1..written[p]
          /\ \A i \in 1..written[p] : file[i] = lines[p][i]
      BY <2>3, <3>1
    <3>4. H!Max({n, Len(file)}) = n
      BY <2>3, <3>3 DEF H!Max
    <3>5. file' = [i \in 1..n |-> lines[p][i]]
      <4> DEFINE at(i) == CASE i \in (written[p] + 1)..n -> lines[p][i]
                            [] i \in DOMAIN file \ ((written[p] + 1)..n) -> file[i]
                            [] OTHER -> Hole
      <4>1. file' = [i \in 1..n |-> at(i)]
        BY <2>1, <3>4
      <4>2. ASSUME NEW i \in 1..n PROVE at(i) = lines[p][i]
        <5>1. i \in (written[p] + 1)..n \/ (i \in 1..written[p] /\ i \notin (written[p] + 1)..n)
          BY <2>3
        <5> QED BY <3>3, <5>1
      <4> HIDE DEF at
      <4> QED BY <4>1, <4>2
    <3>6. file' = SubSeq(lines[p], 1, n)
      BY <2>3, <3>5
    <3> QED BY <2>2, <2>4, <2>5, <3>2, <3>6 DEF H!OneWriter
  <2>9. H!RestIsSound'
    BY <2>5, <2>6 DEF H!RestIsSound, H!AtRest
  <2>10. H!LinesAreSound'
    BY <2>2 DEF Sound, H!LinesAreSound, H!Holds, H!Keeps, H!Lists
  <2> QED BY <2>7, <2>8, <2>9, <2>10 DEF Sound
<1>13. ASSUME NEW p \in H!Processes, H!Close(p) PROVE Sound'
  <2>1. /\ hStage[p] = "write" /\ hStage'[p] = "idle" /\ written'[p] = 0
        /\ UNCHANGED <<file, first, cut, mixed>>
        /\ applied' = domains[p] /\ written[p] = Len(lines[p])
        /\ \A q \in H!Processes \ {p} : UNCHANGED <<hStage[q], domains[q], lines[q], written[q]>>
    BY <1>13 DEF H!Close, H!Finish, H!TypeOK, H!Writing
  <2> QED BY <2>1, WritingEnds
<1>14. ASSUME NEW p \in H!Processes, H!DiskFull(p) PROVE Sound'
  <2>1. /\ hStage[p] = "write" /\ hStage'[p] = "idle" /\ written'[p] = 0
        /\ UNCHANGED <<file, first, mixed>> /\ cut'
        /\ \A q \in H!Processes \ {p} : UNCHANGED <<hStage[q], domains[q], lines[q], written[q]>>
    BY <1>14 DEF H!DiskFull, H!Finish, H!TypeOK, H!Writing
  <2> QED BY <2>1, WritingEnds
<1>15. ASSUME NEW p \in H!Processes, H!Kill(p) PROVE Sound'
  <2>1. /\ hStage'[p] = "idle" /\ written'[p] = 0
        /\ UNCHANGED <<file, first, applied, mixed>> /\ cut' = (cut \/ H!Writing(p))
        /\ \A q \in H!Processes \ {p} : UNCHANGED <<hStage[q], domains[q], lines[q], written[q]>>
    BY <1>15 DEF H!Kill, H!Finish, H!TypeOK
  <2>2. CASE hStage[p] = "write"
    BY <2>1, <2>2, WritingEnds DEF H!Writing
  <2>3. CASE hStage[p] # "write"
    <3>1. cut' = cut
      BY <2>1, <2>3 DEF H!Writing, H!TypeOK
    <3> QED BY <2>1, <2>3, <3>1, BesidesTheFile
  <2> QED BY <2>2, <2>3
<1>16. CASE UNCHANGED H!vars
  BY <1>16, BesidesTheFile DEF H!vars
<1> QED BY <1>1, <1>2, <1>3, <1>5, <1>7, <1>8, <1>9, <1>10, <1>11, <1>12, <1>13, <1>14, <1>15, <1>16 DEF H!Next

LEMMA HostsAlways == H!Spec => []H!FileInv
<1>1. H!FileInv /\ [H!Next]_H!vars => H!FileInv'
  BY HostsTypeStep, SoundStep DEF H!FileInv, Sound
<1> QED BY <1>1, HostsInit, PTL DEF H!Spec

\* The invariant says that others are kept and the list is what was applied.
LEMMA HostsInvTells == H!FileInv => OthersAreKept /\ ListIsApplied
<1> SUFFICES ASSUME H!FileInv PROVE OthersAreKept /\ ListIsApplied
  OBVIOUS
<1>1. OthersAreKept
  BY DEF OthersAreKept, H!OthersAreKept, H!FileInv, H!RestIsSound, H!Keeps
<1>2. ListIsApplied
  BY DEF ListIsApplied, H!ListIsApplied, H!FileInv, H!RestIsSound, H!Lists, H!LinesAreSound, H!Holds
<1> QED BY <1>1, <1>2

\* The variables of the hosts file and its writers hold what the code can put there.
THEOREM HostsTypeCorrect == H!Spec => []H!TypeOK
BY HostsAlways, PTL DEF H!FileInv

\* However many updates by the window and by commands there are, of whatever file and to
\* whatever lists, the lines of others outside the block stay in the file, all of them and
\* in order, unless one process comes into the writing of another or an update is cut off.
THEOREM HostsKeepOthers == H!Spec => []OthersAreKept
BY HostsAlways, HostsInvTells, PTL

\* What is read as blocked is what was applied last, for every file with at most one block
\* and every list; and even after updates that were cut off, what the next process is
\* about to write is read back with everything it is to apply.
THEOREM HostsListApplied == H!Spec => []ListIsApplied
BY HostsAlways, HostsInvTells, PTL

-----------------------------------------------------------------------------
(* The three of them *)

\* The scene of a behaviour is a behaviour of its module, and the other modules rest.
LEMMA EachOnItsOwn == FilesSpec => Spec /\ H!Spec /\ E!Spec
<1>1. FilesInit => Init /\ H!Init /\ E!Init
  BY DEF FilesInit
<1>2. [FilesNext]_<<scene, vars, hosts, payload>> =>
        [Next]_vars /\ [H!Next]_H!vars /\ [E!Next]_E!vars
  BY DEF FilesNext, hosts, payload, H!vars, H!dialog, H!history, E!vars, E!disk, E!procs,
         E!history
<1> QED BY <1>1, <1>2, PTL DEF FilesSpec, Spec, H!Spec, E!Spec

\* Whichever of the files is the scene, the variables of all three modules hold what the
\* code can put there.
THEOREM AllTypesCorrect == FilesSpec => []AllTypesOK
BY EachOnItsOwn, TypeCorrect, HostsTypeCorrect, StoreTypeCorrect, PTL DEF AllTypesOK
=============================================================================
