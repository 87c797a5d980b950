----------------------------- MODULE TweakTable -----------------------------
(***************************************************************************)
(* The table of system tweaks (BuildTable in core/TweakRegistry.cpp).      *)
(*                                                                         *)
(* An entry is the writes of its apply(true) and of its apply(false), the  *)
(* conditions its probe reads and the builds of Windows it is offered on.  *)
(* Registry keys that an entry only creates or deletes as a whole are one  *)
(* value.  Commands that touch nothing another entry reads (dism, sfc,     *)
(* deleting caches) write nothing here.  The settings of a power scheme    *)
(* belong to the scheme that is active when they are written or read.      *)
(* A condition is a value with the content it has to have, or Enabled for a *)
(* flag of the boot configuration, which is read from bcdedit's output.     *)
(***************************************************************************)
EXTENDS StoredNames, Naturals, TLC

-----------------------------------------------------------------------------
(* How rows are written *)

Toggle(id, admin, builds, on, off, any, probe) ==
    [id |-> id, kind |-> "toggle", admin |-> admin, builds |-> builds,
     on |-> on, off |-> off, any |-> any, probe |-> probe]

\* A toggle backed by one DWORD; machine-wide ones need administrator rights.
DwordToggle(id, root, name, onValue, offValue) ==
    Toggle(id, root = "HKLM", <<0, 0>>,
           <<root, name>> :> onValue, <<root, name>> :> offValue,
           TRUE, {<<<<root, name>>, onValue>>})

Action(id, admin, writes) ==
    [id |-> id, kind |-> "action", admin |-> admin, builds |-> <<0, 0>>,
     on |-> writes, off |-> writes, any |-> TRUE, probe |-> {}]

Nothing == [n \in {} |-> "absent"]

\* The same content for every value of a set.
Fill(root, names, v) == [n \in {<<root, name>> : name \in names} |-> v]

-----------------------------------------------------------------------------
(* The table, page by page *)

Explorer == {
    Toggle("explorer.hide-nonremovable", TRUE, <<0, 22620>>,
           Fill("HKLM", {"NameSpace", "NameSpace32"}, "absent"),
           Fill("HKLM", {"NameSpace", "NameSpace32"}, "key"),
           TRUE, {<<<<"HKLM", n>>, "absent">> : n \in {"NameSpace", "NameSpace32"}}),
    DwordToggle("explorer.show-hidden", "HKCU", "Hidden", "1", "0"),
    DwordToggle("explorer.show-extensions", "HKCU", "HideFileExt", "0", "1"),
    DwordToggle("explorer.open-this-pc", "HKCU", "LaunchTo", "1", "2"),
    DwordToggle("explorer.hide-gallery", "HKCU", "System.IsPinnedToNameSpaceTree", "0", "1"),
    DwordToggle("explorer.show-this-pc-desktop", "HKCU", "NewStartPanel", "0", "1"),
    Toggle("explorer.clean-shortcut-name", FALSE, <<0, 0>>,
           <<"HKCU", "ShortcutNameTemplate">> :> "%s.lnk",
           <<"HKCU", "ShortcutNameTemplate">> :> "absent",
           TRUE, {<<<<"HKCU", "ShortcutNameTemplate">>, "%s.lnk">>}),
    DwordToggle("explorer.hide-frequent", "HKCU", "ShowFrequent", "0", "1"),
    DwordToggle("explorer.item-checkboxes", "HKCU", "AutoCheckSelect", "1", "0"),
    DwordToggle("explorer.no-recent-docs", "HKCU", "NoRecentDocsHistory", "1", "0"),
    DwordToggle("explorer.confirm-delete", "HKCU", "ConfirmFileDelete", "1", "0"),
    Action("explorer.fix-delegate-folders", TRUE, <<"HKLM", "DelegateFolders">> :> "absent"),
    Action("explorer.show-all-drives", FALSE, <<"HKCU", "NoDrives">> :> "0") }

Policy == {"DoNotConnectToWindowsUpdateInternetLocations",
           "DisableWindowsUpdateAccess", "DisableDualScan", "NoAutoUpdate"}
Services == [n \in {<<"HKLM", s>> : s \in {"wuauserv", "UsoSvc", "WaaSMedicSvc", "dosvc", "bits"}}
                 |-> IF n[2] \in {"UsoSvc", "dosvc"} THEN "2" ELSE "3"]

WindowsUpdate == {
    Toggle("wu.block-updates", TRUE, <<0, 0>>,
           Fill("HKLM", Policy, "1") @@ [n \in DOMAIN Services |-> "4"],
           Fill("HKLM", Policy, "0") @@ Services,
           TRUE, {<<<<"HKLM", "NoAutoUpdate">>, "1">>}),
    DwordToggle("wu.exclude-drivers", "HKLM", "ExcludeWUDriversInQualityUpdate", "1", "0"),
    DwordToggle("wu.disable-reserves", "HKLM", "ShippedWithReserves", "0", "1"),
    Action("wu.pause-updates", TRUE, <<"HKLM", "PauseUpdates">> :> "2077"),
    Action("wu.clear-cache", TRUE, Nothing) }

DataCollection == {"AllowTelemetry32", "AllowTelemetry", "MaxTelemetryAllowed",
                   "PolicyAllowTelemetry", "AITEnable", "AppCompatAllowTelemetry"}
Reporting == {"DoNotShowFeedbackNotifications", "NoGenTicket", "DisableEngine",
              "DisableInventory", "DisablePCA", "DisableUAR"}
StickyOn == <<"HKCU", "StickyKeys">> :> "506" @@ <<"HKCU", "KeyboardResponse">> :> "122"
            @@ <<"HKCU", "ToggleKeys">> :> "58"
StickyOff == <<"HKCU", "StickyKeys">> :> "510" @@ <<"HKCU", "KeyboardResponse">> :> "126"
             @@ <<"HKCU", "ToggleKeys">> :> "62"

SystemRecovery == {
    Toggle("sys.telemetry-off", TRUE, <<0, 0>>,
           Fill("HKLM", DataCollection, "0") @@ Fill("HKLM", Reporting, "1"),
           Fill("HKLM", DataCollection, "1") @@ Fill("HKLM", Reporting, "0"),
           TRUE, {<<<<"HKLM", "AllowTelemetry32">>, "0">>}),
    Toggle("sys.uac-off", TRUE, <<0, 0>>,
           <<"HKLM", "EnableLUA">> :> "0" @@ <<"HKCU", "SaveZoneInformation">> :> "1"
               @@ <<"HKCU", "LowRiskFileTypes">> :> ".exe;.msi;.bat;",
           <<"HKLM", "EnableLUA">> :> "1",
           TRUE, {<<<<"HKLM", "EnableLUA">>, "0">>}),
    Toggle("sys.hibernate-off", TRUE, <<0, 0>>,
           <<"HKLM", "HibernateEnabled">> :> "0", <<"HKLM", "HibernateEnabled">> :> "1",
           TRUE, {<<<<"HKLM", "HibernateEnabled">>, "0">>}),
    Toggle("sys.smartscreen-off", TRUE, <<0, 0>>,
           <<"HKLM", "EnableSmartScreen">> :> "0" @@ <<"HKLM", "SmartScreenEnabled">> :> "Off"
               @@ <<"HKCU", "SaveZoneInformation">> :> "1",
           <<"HKLM", "EnableSmartScreen">> :> "1" @@ <<"HKLM", "SmartScreenEnabled">> :> "Warn"
               @@ <<"HKCU", "SaveZoneInformation">> :> "0",
           TRUE, {<<<<"HKLM", "EnableSmartScreen">>, "0">>,
                  <<<<"HKLM", "SmartScreenEnabled">>, "Off">>}),
    DwordToggle("sys.bing-search-off", "HKCU", "DisableSearchBoxSuggestions", "1", "0"),
    Toggle("sys.sticky-keys-off", FALSE, <<0, 0>>, StickyOn, StickyOff,
           TRUE, {<<n, StickyOn[n]>> : n \in DOMAIN StickyOn}),
    DwordToggle("sys.core-isolation-off", "HKLM", "HypervisorEnforcedCodeIntegrity", "0", "1"),
    DwordToggle("sys.chkdsk-timeout", "HKLM", "AutoChkTimeout", "60", "8"),
    DwordToggle("sys.block-bitlocker", "HKLM", "PreventDeviceEncryption", "1", "0") }
    \cup {Action(id, TRUE, Nothing) : id \in {"sys.sfc-scan", "sys.dism-restore"}}
    \cup {Action(id, FALSE, Nothing) :
             id \in {"sys.clean-temp", "sys.battery-report", "sys.clean-pip-cache",
                     "sys.empty-recycle-bin", "sys.clean-thumbnail-cache"}}

\* A flag of the boot configuration, which off deletes or sets to false.
BcdToggle(id, name, offValue) ==
    Toggle(id, TRUE, <<0, 0>>, <<"BCD", name>> :> "true", <<"BCD", name>> :> offValue,
           TRUE, {<<<<"BCD", name>>, Enabled>>})

Light == {"AppsUseLightTheme", "SystemUsesLightTheme"}
Taskbar == {"ShowTaskViewButton", "TaskbarDa", "TaskbarMn"}

Personalization == {
    Toggle("per.dark-theme", FALSE, <<0, 0>>, Fill("HKCU", Light, "0"), Fill("HKCU", Light, "1"),
           FALSE, {<<<<"HKCU", n>>, "0">> : n \in Light}),
    DwordToggle("per.transparency-off", "HKCU", "EnableTransparency", "0", "1"),
    DwordToggle("per.verbose-boot", "HKLM", "verbosestatus", "1", "0"),
    DwordToggle("per.disable-logon-acrylic", "HKLM", "DisableAcrylicBackgroundOnLogon", "1", "0"),
    Toggle("per.end-task", FALSE, <<22000, 0>>,
           <<"HKCU", "TaskbarEndTask">> :> "1", <<"HKCU", "TaskbarEndTask">> :> "0",
           TRUE, {<<<<"HKCU", "TaskbarEndTask">>, "1">>}),
    Toggle("per.old-context-menu", FALSE, <<22621, 0>>,
           <<"HKCU", "InprocServer32">> :> "key", <<"HKCU", "InprocServer32">> :> "absent",
           TRUE, {<<<<"HKCU", "InprocServer32">>, "key">>}),
    Toggle("per.fast-context-menu", FALSE, <<0, 0>>,
           <<"HKCU", "MenuShowDelay">> :> "50", <<"HKCU", "MenuShowDelay">> :> "400",
           TRUE, {<<<<"HKCU", "MenuShowDelay">>, "50">>}),
    Toggle("per.small-title-bars", FALSE, <<0, 0>>,
           Fill("HKCU", {"CaptionHeight", "CaptionWidth"}, "-270"),
           Fill("HKCU", {"CaptionHeight", "CaptionWidth"}, "-330"),
           TRUE, {<<<<"HKCU", "CaptionHeight">>, "-270">>}),
    BcdToggle("per.no-boot-logo", "custom:16000067", "absent"),
    BcdToggle("per.no-boot-animation", "custom:16000069", "absent"),
    Toggle("per.hide-taskbar-widgets", FALSE, <<0, 0>>,
           Fill("HKCU", Taskbar, "0"), Fill("HKCU", Taskbar, "1"),
           TRUE, {<<<<"HKCU", "TaskbarDa">>, "0">>}),
    DwordToggle("per.no-search-highlights", "HKCU", "IsDynamicSearchBoxEnabled", "0", "1"),
    DwordToggle("per.clipboard-history", "HKCU", "EnableClipboardHistory", "1", "0") }

Guard == {"EnableVirtualizationBasedSecurity", "RequireMicrosoftSignedBootChain",
          "KernelDMAProtection", "LsaCfgFlags", "ScenarioEnabled"}
Launch == <<"BCD", "hypervisorlaunchtype">>

\* Removing the override is what restores the time to live of Windows.
StockTtl == Fill("HKLM", {"DefaultTTL", "DefaultTTL6"}, "absent")

Advanced == {
    Toggle("adv.vbs-off", TRUE, <<0, 0>>,
           Fill("HKLM", Guard \cup {"RequirePlatformSecurityFeatures"}, "0") @@ Launch :> "off",
           Fill("HKLM", Guard, "1") @@ <<"HKLM", "RequirePlatformSecurityFeatures">> :> "3"
               @@ Launch :> "auto",
           TRUE, {<<<<"HKLM", "EnableVirtualizationBasedSecurity">>, "0">>}),
    Toggle("adv.ttl-65", TRUE, <<0, 0>>,
           Fill("HKLM", {"DefaultTTL", "DefaultTTL6"}, "65"), StockTtl,
           TRUE, {<<<<"HKLM", "DefaultTTL">>, "65">>}),
    Toggle("adv.indexing-off", TRUE, <<0, 0>>,
           <<"HKLM", "WSearch">> :> "4", <<"HKLM", "WSearch">> :> "2",
           TRUE, {<<<<"HKLM", "WSearch">>, "4">>}),
    Toggle("adv.legacy-boot-menu", TRUE, <<0, 0>>,
           <<"BCD", "bootmenupolicy">> :> "legacy", <<"BCD", "bootmenupolicy">> :> "standard",
           TRUE, {<<<<"BCD", "bootmenupolicy">>, "legacy">>}),
    BcdToggle("adv.advanced-boot-options", "advancedoptions", "false"),
    Toggle("adv.disable-pagefile", TRUE, <<0, 0>>,
           <<"HKLM", "PagingFiles">> :> "empty", <<"HKLM", "PagingFiles">> :> "?:\\pagefile.sys",
           TRUE, {<<<<"HKLM", "PagingFiles">>, v>> : v \in {"empty", "absent"}}),
    Action("adv.remove-edge", TRUE, <<"HKLM", "EdgeUpdate">> :> "blocked") }

Components ==
    {Action(id, TRUE, Nothing) :
        id \in {"compon.directplay", "compon.netfx3", "compon.photo-viewer", "compon.gpedit",
                "compon.winsxs-cleanup", "compon.powershell-remotesigned"}}
    \cup {Action("compon.hyperv-off", TRUE, Launch :> "off"),
          Action("compon.gamedvr-off", TRUE,
                 <<"HKCU", "GameDVR_Enabled">> :> "0" @@ <<"HKLM", "AllowGameDVR">> :> "0")}

Timeouts == {Active("display"), Active("sleep")}

\* The timeouts are written for mains and battery alike; the probe reads mains.
Performance == {
    Toggle("perf.no-sleep-timeout", TRUE, <<0, 0>>,
           [n \in Timeouts |-> "0"],
           Active("display") :> "600" @@ Active("sleep") :> "1800",
           FALSE, {<<n, "0">> : n \in Timeouts}),
    Toggle("perf.ultimate-power-plan", TRUE, <<0, 0>>,
           Scheme :> "ultimate", Scheme :> "balanced",
           TRUE, {<<Scheme, "ultimate">>}) }

BuildTable == Explorer \cup WindowsUpdate \cup SystemRecovery \cup Personalization
       \cup Advanced \cup Components \cup Performance
=============================================================================
