------------------------------- MODULE Handlers -------------------------------
(***************************************************************************)
(* main() looks its command up in commands[] and runs the handler: the     *)
(* handlers' scripts carried out step by step over one of the transports,  *)
(* against an EC that has some versions of each command and any command of *)
(* which may fail. What the handler returns becomes the exit status.       *)
(***************************************************************************)
EXTENDS TLC, EcCommands, SystemHandlers, FanHandlers, LightbarHandlers, MotionHandlers,
        UsbPdHandlers, ChargeHandlers, EventHandlers, BoardHandlers,
        FirmwareHandlers, LightbarParams

CONSTANTS
  Commands,     \* the commands the user may give
  Transports    \* the transports that may be in use

\* What a transport gives a handler: "mem" is ec_readmem, "poll" is
\* ec_pollevent, "ports" the I/O ports, "length" an ec_command() that returns
\* the length of the answer. "fp" is a /dev node without EC memory map.
Hooks ==
  [dev |-> {"mem", "poll", "length"}, fp |-> {"poll", "length"},
   lpc |-> {"mem", "ports", "length"}, i2c |-> {"mem", "length"},
   spi |-> {"mem"}, usb |-> {"length"}]

commands ==
  [adcread |-> cmd_adc_read, addentropy |-> cmd_add_entropy,
   apreset |-> cmd_apreset, autofanctrl |-> cmd_thermal_auto_fan_ctrl,
   backlight |-> cmd_lcd_backlight, basestate |-> cmd_basestate,
   battery |-> cmd_battery, batterycutoff |-> cmd_battery_cut_off,
   batteryparam |-> cmd_battery_vendor_param,
   boardversion |-> cmd_board_version, button |-> cmd_button, cbi |-> cmd_cbi,
   chargecurrentlimit |-> cmd_charge_current_limit,
   chargecontrol |-> cmd_charge_control,
   chargeoverride |-> cmd_charge_port_override,
   chargesplash |-> cmd_chargesplash, chargestate |-> cmd_charge_state,
   chipinfo |-> cmd_chipinfo, cmdversions |-> cmd_cmdversions,
   console |-> cmd_console, cec |-> cmd_cec, echash |-> cmd_ec_hash,
   eventclear |-> cmd_host_event_clear,
   eventclearb |-> cmd_host_event_clear_b, eventget |-> cmd_host_event_get_raw,
   eventgetb |-> cmd_host_event_get_b,
   eventgetscimask |-> cmd_host_event_get_sci_mask,
   eventgetsmimask |-> cmd_host_event_get_smi_mask,
   eventgetwakemask |-> cmd_host_event_get_wake_mask,
   eventsetscimask |-> cmd_host_event_set_sci_mask,
   eventsetsmimask |-> cmd_host_event_set_smi_mask,
   eventsetwakemask |-> cmd_host_event_set_wake_mask,
   extpwrlimit |-> cmd_ext_power_limit, fanduty |-> cmd_fanduty,
   flashprotect |-> cmd_flash_protect, flashinfo |-> cmd_flash_info,
   flashspiinfo |-> cmd_flash_spi_info, forcelidopen |-> cmd_force_lid_open,
   flashpd |-> cmd_flash_pd, fpcontext |-> cmd_fp_context,
   fpframe |-> cmd_fp_frame, fptemplate |-> cmd_fp_template, fpencstatus |-> cmd_fp_enc_status,
   fpinfo |-> cmd_fp_info, fpmode |-> cmd_fp_mode, fpseed |-> cmd_fp_seed,
   fpstats |-> cmd_fp_stats, fwchargelimit |-> cmd_fw_charge_limit,
   fwpdversion |-> cmd_fw_pdversion, gpioget |-> cmd_gpio_get,
   gpioset |-> cmd_gpio_set, hangdetect |-> cmd_hang_detect,
   hello |-> cmd_hello, hibdelay |-> cmd_hibdelay, hostevent |-> cmd_hostevent,
   hostsleepstate |-> cmd_hostsleepstate, locatechip |-> cmd_locate_chip,
   i2cprotect |-> cmd_i2c_protect, i2cread |-> cmd_i2c_read,
   i2cspeed |-> cmd_i2c_speed, i2cwrite |-> cmd_i2c_write,
   i2cxfer |-> cmd_i2c_xfer, infopddev |-> cmd_pd_device_info,
   inventory |-> cmd_inventory, led |-> cmd_led,
   lightbar |-> cmd_lightbar, kbfactorytest |-> cmd_keyboard_factory_test,
   kbid |-> cmd_kbid, kbinfo |-> cmd_kbinfo, kbpress |-> cmd_kbpress,
   keyconfig |-> cmd_keyconfig, mkbpget |-> cmd_mkbp_get,
   mkbpwakemask |-> cmd_mkbp_wake_mask, motionsense |-> cmd_motionsense,
   nextevent |-> cmd_next_event, panicinfo |-> cmd_panic_info,
   pause_in_s5 |-> cmd_s5, pchg |-> cmd_pchg, pdgetmode |-> cmd_pd_get_amode,
   pdsetmode |-> cmd_pd_set_amode, port80read |-> cmd_port80_read,
   pdlog |-> cmd_pd_log, pdcontrol |-> cmd_pd_control,
   pdchipinfo |-> cmd_pd_chip_info, pdwritelog |-> cmd_pd_write_log,
   powerinfo |-> cmd_power_info, protoinfo |-> cmd_proto_info, pse |-> cmd_pse,
   pstoreinfo |-> cmd_pstore_info, pstoreread |-> cmd_pstore_read,
   pstorewrite |-> cmd_pstore_write, pwmgetfanrpm |-> cmd_pwm_get_fan_rpm,
   pwmgetkblight |-> cmd_pwm_get_keyboard_backlight,
   pwmgetnumfans |-> cmd_pwm_get_num_fans, pwmgetduty |-> cmd_pwm_get_duty,
   pwmsetfanrpm |-> cmd_pwm_set_fan_rpm,
   pwmsetkblight |-> cmd_pwm_set_keyboard_backlight,
   pwmsetduty |-> cmd_pwm_set_duty, rand |-> cmd_rand, raw |-> cmd_raw,
   readtest |-> cmd_read_test, reboot_ec |-> cmd_reboot_ec,
   rgbkbd |-> cmd_rgbkbd, rollbackinfo |-> cmd_rollback_info,
   rtcget |-> cmd_rtc_get, rtcgetalarm |-> cmd_rtc_get_alarm,
   rtcset |-> cmd_rtc_set, rtcsetalarm |-> cmd_rtc_set_alarm,
   rwhashpd |-> cmd_rw_hash_pd, rwsig |-> cmd_rwsig,
   rwsigaction |-> cmd_rwsig_action_legacy, rwsigstatus |-> cmd_rwsig_status,
   sertest |-> cmd_serial_test, smartdischarge |-> cmd_smart_discharge,
   stress |-> cmd_stress_test, sysinfo |-> cmd_sysinfo,
   port80flood |-> cmd_port_80_flood, switches |-> cmd_switches,
   temps |-> cmd_temperature, tempsinfo |-> cmd_temp_sensor_info,
   test |-> cmd_test, thermalget |-> cmd_thermal_get_threshold,
   thermalset |-> cmd_thermal_set_threshold, tpselftest |-> cmd_tp_self_test,
   tpframeget |-> cmd_tp_frame_get, tmp006cal |-> cmd_tmp006cal,
   tmp006raw |-> cmd_tmp006raw, typeccontrol |-> cmd_typec_control,
   typecdiscovery |-> cmd_typec_discovery, typecstatus |-> cmd_typec_status,
   uptimeinfo |-> cmd_uptimeinfo, usbchargemode |-> cmd_usb_charge_set_mode,
   usbmux |-> cmd_usb_mux, usbpd |-> cmd_usb_pd, usbpddps |-> cmd_usb_pd_dps,
   usbpdmuxinfo |-> cmd_usb_pd_mux_info, usbpdpower |-> cmd_usb_pd_power,
   version |-> cmd_version, waitevent |-> cmd_wait_event,
   wireless |-> cmd_wireless, reboot_ap_on_g3 |-> cmd_reboot_ap_on_g3]

ASSUME CommandsAssumption == Commands \subseteq DOMAIN commands
ASSUME TransportsAssumption == Transports \subseteq DOMAIN Hooks

VARIABLES
  command,    \* the command given
  transport,  \* the transport main() found
  todo,       \* the steps the handler has left
  file,       \* the light bar parameters the user gives: the format printed
  params,     \* the format they were read as, "" before
  rv,         \* what the last command returned
  known,      \* commands whose versions the EC was asked for: the versions
  exit,       \* how the process ended, "running" until then
  asked,      \* history: the change the user asked for
  made,       \* history: the changes made of those asked for
  changed,    \* history: a change was made and acknowledged
  lost,       \* history: the last such command was not acknowledged
  stale,      \* history: the last failure of a read was passed over
  blame       \* history: the last thing that went wrong, "" if nothing did

ecVars == <<command, transport, known>>
historyVars == <<asked, made, changed, lost, stale>>
fileVars == <<file, params>>
vars == <<ecVars, fileVars, todo, rv, exit, historyVars, blame>>

\* What an EC may have of a command: none of its versions, or all up to one.
Masks(c) == {{}} \cup {{v \in EC_CMD[c].versions : v <= n} :
                        n \in EC_CMD[c].versions}

Has(hook) == hook \in Hooks[transport]

Init ==
  /\ command \in Commands
  /\ transport \in Transports
  /\ todo = commands[command]
  /\ file = "" /\ params = ""
  /\ rv = "none"
  /\ known = <<>>
  /\ exit = "running"
  /\ asked = ""
  /\ made = {}
  /\ changed = FALSE
  /\ lost = FALSE
  /\ stale = FALSE
  /\ blame = ""

-----------------------------------------------------------------------------
At(ops) == exit = "running" /\ todo # <<>> /\ Head(todo).op \in ops
Now == Head(todo)

Advance(steps) == todo' = steps \o Tail(todo) /\ UNCHANGED exit
Continue(steps) == Advance(steps) /\ UNCHANGED blame
End(status) == todo' = <<>> /\ exit' = status

\* A step went well, or not: the branch the script names, or else on, or out.
Succeed == Continue(IF Now.alt = <<>> THEN <<>> ELSE Now.alt[1])
FailAs(what) ==
  /\ blame' = what
  /\ IF Now.alt = <<>> THEN End("failure") ELSE Advance(Now.alt[2])

\* "raw" sends any command; of others it is known what they answer.
MayAnswer ==
  Now.cmd \in DOMAIN EC_CMD => Now.ver \in EC_CMD[Now.cmd].answers

\* The EC takes the command only in a version it has.
Understood == Now.cmd \in DOMAIN known => Now.ver \in known[Now.cmd]

\* The script goes on as if nothing was wrong.
PassedOver == Now.alt # <<>> /\ Now.alt[2] = <<>>

Asks == Now.op \in {"get", "setget"}
Changes == Now.op \in {"set", "setget"}

Sends == At({"get", "set", "setget"})

CommandSucceeds ==
  /\ Sends /\ Understood
  /\ rv' \in IF MayAnswer /\ Has("length") THEN {"zero", "length"} ELSE {"zero"}
  /\ changed' = (changed \/ Changes)
  /\ lost' = IF Changes THEN FALSE ELSE lost
  /\ stale' = IF Asks THEN FALSE ELSE stale
  /\ Succeed
  /\ UNCHANGED <<ecVars, fileVars, asked, made>>

\* The EC refuses, or the transport fails, before or after it took effect.
CommandFails ==
  /\ Sends
  /\ rv' = "failure"
  /\ lost' = (lost \/ Changes)
  /\ stale' = (stale \/ (Now.op = "get" /\ PassedOver))
  /\ FailAs("command")
  /\ UNCHANGED <<ecVars, fileVars, asked, made, changed>>

Learn(mask) == known' = (Now.cmd :> mask) @@ known

\* ec_cmd_version_supported(): no is also the answer when asking failed.
AskSupported ==
  /\ At({"supported"})
  /\ \/ \E mask \in Masks(Now.cmd) :
          /\ Now.cmd \in DOMAIN known => mask = known[Now.cmd]
          /\ Learn(mask)
          /\ Continue(Now.alt[IF Now.ver \in mask THEN 1 ELSE 2])
     \/ UNCHANGED known /\ Continue(Now.alt[2])
  /\ UNCHANGED <<command, transport, fileVars, rv, historyVars>>

AskVersions ==
  /\ At({"versions"})
  /\ \/ \E mask \in Masks(Now.cmd) : Learn(mask) /\ Succeed
     \/ UNCHANGED known /\ FailAs("command")
  /\ UNCHANGED <<command, transport, fileVars, rv, historyVars>>

TestVersion ==
  /\ At({"knows"})
  /\ Continue(Now.alt[IF Now.ver \in known[Now.cmd] THEN 1 ELSE 2])
  /\ UNCHANGED <<ecVars, fileVars, rv, historyVars>>

TestLength ==
  /\ At({"positive"})
  /\ Continue(Now.alt[IF rv = "length" THEN 1 ELSE 2])
  /\ UNCHANGED <<ecVars, fileVars, rv, historyVars>>

ReadInput ==
  /\ At({"args"})
  /\ Succeed \/ FailAs("input")
  /\ UNCHANGED <<ecVars, fileVars, rv, historyVars>>

\* The reader of a format takes the file, or meets a line it does not want.
ReadParams ==
  /\ At({"reads"})
  /\ \/ \E f \in DOMAIN LightbarFormats :
          /\ file \in {"", f} /\ file' = f
          /\ IF Accepts(Now.cmd, f) THEN params' = Now.cmd /\ Succeed
                                   ELSE FailAs("input") /\ UNCHANGED params
     \/ file = "" /\ FailAs("input") /\ UNCHANGED fileVars
  /\ UNCHANGED <<ecVars, rv, historyVars>>

CheckAnswer ==
  /\ At({"check", "whole"})
  /\ \/ (Now.op = "whole" => rv = "length") /\ Succeed
     \/ FailAs("answer")
  /\ UNCHANGED <<ecVars, fileVars, rv, historyVars>>

\* The hook each of these steps needs; without it the process crashes, but
\* for the one that only looks whether it is there.
Needs == [mem |-> "mem", poll |-> "poll", canpoll |-> "poll", ports |-> "ports"]

UseHook ==
  /\ At({"mem", "poll", "ports"})
  /\ IF Has(Needs[Now.op]) THEN Succeed \/ FailAs("hook")
                           ELSE End("crashed") /\ UNCHANGED blame
  /\ UNCHANGED <<ecVars, fileVars, rv, historyVars>>

TestHook ==
  /\ At({"canpoll"})
  /\ IF Has(Needs[Now.op]) THEN Succeed ELSE FailAs("hook")
  /\ UNCHANGED <<ecVars, fileVars, rv, historyVars>>

Choose ==
  /\ At({"pick"})
  /\ \E i \in DOMAIN Now.alt : Continue(Now.alt[i])
  /\ UNCHANGED <<ecVars, fileVars, rv, historyVars>>

Loop ==
  /\ At({"repeat", "forever"})
  /\ \/ Continue(<<>>)
     \/ /\ Now.op = "repeat" /\ Now.ver > 0
        /\ Continue(Now.alt[1] \o <<[Now EXCEPT !.ver = @ - 1]>>)
     \/ /\ Now.op = "forever"
        /\ Continue(Append(Now.alt[1], Now))
  /\ UNCHANGED <<ecVars, fileVars, rv, historyVars>>

Note ==
  /\ At({"asked", "makes"})
  /\ Continue(<<>>)
  /\ IF Now.op = "asked" THEN asked' = Now.cmd /\ UNCHANGED made
                         ELSE made' = made \cup {Now.cmd} /\ UNCHANGED asked
  /\ UNCHANGED <<ecVars, fileVars, rv, changed, lost, stale>>

\* The handler returns; main() exits with !!rv.
HandlerReturns ==
  /\ exit = "running"
  /\ \/ todo = <<>> /\ End("zero") /\ UNCHANGED blame
     \/ /\ At({"return"})
        /\ End(CASE Now.cmd = "rv" -> rv [] Now.cmd = "zero" -> "zero"
                  [] OTHER -> "failure")
        /\ blame' = IF Now.cmd \in {"answer", "input"} THEN Now.cmd ELSE blame
  /\ UNCHANGED <<ecVars, fileVars, rv, historyVars>>

Next ==
  \/ CommandSucceeds \/ CommandFails \/ AskSupported \/ AskVersions
  \/ TestVersion \/ TestLength \/ ReadInput \/ ReadParams \/ CheckAnswer
  \/ UseHook \/ TestHook \/ Choose \/ Loop \/ Note \/ HandlerReturns

Spec == Init /\ [][Next]_vars

-----------------------------------------------------------------------------
\* A handler that ends with 0 has had the last of its changes acknowledged:
\* no retry, fallback or loop of a handler swallows a refusal. infopddev asks
\* for the mode again instead; "stress reboot" ignores what the reboot came to,
\* and its loop only counts failures.
SuccessIsReal == exit = "zero" /\ command \notin {"infopddev", "stress"} => ~lost

\* And it has made the change the user asked for, also where only some
\* versions of the command can make it.
SuccessDoesWhatWasAsked == exit = "zero" => asked = "" \/ asked \in made

\* Where that does not hold: an argument the EC's version has no place for is
\* dropped (the fan of autofanctrl, the delay of reboot_ap_on_g3, the timeout
\* of hostsleepstate), wireless drops suspend flags given without a mask,
\* nothing is sent (an empty file for fptemplate,
\* "keyconfig set", the help of motionsense, thermalset over a transport that
\* returns no lengths), or the mode is not there (GFU mode).
Silent == {"autofanctrl", "reboot_ap_on_g3", "hostsleepstate", "fptemplate",
           "keyconfig", "motionsense", "thermalset", "flashpd", "infopddev",
           "wireless"}
AskedIsDoneOrRefused == command \notin Silent => SuccessDoesWhatWasAsked

\* A handler that rejects its arguments or files does so before it has changed
\* anything. flashpd reads its file in GFU mode, pchg parses the address of
\* each file when it is that file's turn.
InputCheckedFirst ==
  command \notin {"flashpd", "pchg"} =>
    (exit = "failure" /\ blame = "input" => ~changed)

\* What could not be read is not the base of a change. flashpd and infopddev go
\* on with the answer of an older query of the mode; what stress sends after a
\* failure is not what it read, but not set at all.
NoChangeOnFailedRead ==
  command \notin {"flashpd", "infopddev", "stress"} => ~(stale /\ Sends /\ Changes)

\* A command is sent in a version ec_commands.h defines, and to an EC that
\* told which versions it has, and has some, in one of those: no handler tests
\* one version and sends another. Without version 2 chargecontrol sends version
\* 1 and does not ask whether there is one; test sends the version it is given.
SpeaksKnownVersions ==
  Sends =>
    /\ Now.cmd \in DOMAIN EC_CMD /\ command # "test" => Now.ver \in EC_CMD[Now.cmd].versions
    /\ Now.cmd \in DOMAIN known /\ command # "chargecontrol"
       => known[Now.cmd] = {} \/ Now.ver \in known[Now.cmd]

\* A handler that did its work ends with 0, since main() makes any other result
\* the exit status 1: it fails only after a command or a hook failed, or because
\* of its arguments, of a file or of what the EC answered. The first four return
\* what ec_command() returned, the length of the answer, so that ectool fails
\* when they succeed; pdgetmode prints all modes and then always returns -1.
EndsWithLength == {"boardversion", "infopddev", "kbid", "test"}
EndsWithFailure == {"pdgetmode"}
SuccessEndsWithZero ==
  /\ exit = "length" => command \in EndsWithLength
  /\ exit = "failure" /\ blame = "" => command \in EndsWithFailure

SetsParams == At({"setget"}) /\ params # ""

\* Parameters of the light bar go to the fields they were printed from, also
\* when the file was printed as another version or group. Only the three lines
\* of two numbers of "oscillation" and "brightness" look alike. What is sent was
\* read from the file but for the fields of S5: these are neither printed nor
\* read, and version 1 sends what the stack holds in their place.
ParamsReadAsShown ==
  SetsParams =>
    /\ {file, params} # {"osc", "bright"} => ReadAsShown(params, file)
    /\ Unread(params) \subseteq {"s5_ramp_up", "s5_ramp_down", "s5_idx"}

\* No handler runs into a hook the transport in use does not have.
NoNullHook == exit # "crashed"
=============================================================================
