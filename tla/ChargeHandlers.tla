---------------------------- MODULE ChargeHandlers ----------------------------
(***************************************************************************)
(* ectool.cc: batteries, chargers and what limits them, and the peripheral *)
(* charger, whose firmware is replaced in a session of commands and        *)
(* events.                                                                 *)
(***************************************************************************)
EXTENDS Script

cmd_ext_power_limit == <<Args, Set("EXTERNAL_POWER_LIMIT", 1), ReturnRv>>
cmd_charge_current_limit == <<Args, Set("CHARGE_CURRENT_LIMIT", 0), ReturnRv>>

\* Limits for the state of charge are a matter of version 2, and so is asking.
cmd_charge_control ==
  <<Supported("CHARGE_CONTROL", 2,
      <<Pick(<<<<Get("CHARGE_CONTROL", 2)>>,
               <<Args, Asked("sustain"),
                 Set("CHARGE_CONTROL", 2), Makes("sustain")>>,
               <<Args, Set("CHARGE_CONTROL", 2)>>>>)>>,
      <<Pick(<<<<Refuse>>,
               <<Asked("sustain"), Refuse>>,
               <<Args, Set("CHARGE_CONTROL", 1)>>>>)>>)>>
cmd_chargesplash == <<Args, Or(SetGet("CHARGESPLASH", 0), <<Fail>>)>>

cs_do_cmd(s) == Or(s, <<Fail>>)
cmd_charge_state ==
  <<Pick(<<<<cs_do_cmd(Get("CHARGE_STATE", 0))>>,
           <<Args, cs_do_cmd(Get("CHARGE_STATE", 0))>>,
           <<Args, cs_do_cmd(Set("CHARGE_STATE", 0))>>,
           <<Done>>>>)>>

\* Text and numbers that make no sense are errors.
get_battery_command ==
  <<Or(Get("BATTERY_GET_STATIC", 1), <<Fail>>),
    Or(Get("BATTERY_GET_DYNAMIC", 0), <<Fail>>), Check>>

\* A battery other than the first is only known to the commands.
cmd_battery ==
  <<Args,
    Pick(<<get_battery_command,
           <<Supported("BATTERY_GET_STATIC", 1, get_battery_command,
                       <<Mem, Check, Mem, Check>>)>>>>)>>

\* Wrong: without version 1 the battery is cut off at once.
battery_cut_off_now ==
  <<Supported("BATTERY_CUT_OFF", 1,
      <<Pick(<<<<Args, Asked("at-shutdown"),
                 Set("BATTERY_CUT_OFF", 1), Makes("at-shutdown")>>,
               <<Set("BATTERY_CUT_OFF", 1)>>>>)>>,
      <<Maybe(<<Asked("at-shutdown")>>), Set("BATTERY_CUT_OFF", 0)>>)>>

\* Only version 1 can wait for the shutdown.
cmd_battery_cut_off ==
  <<Supported("BATTERY_CUT_OFF", 1,
      <<Pick(<<<<Args, Asked("at-shutdown"),
                 Set("BATTERY_CUT_OFF", 1), Makes("at-shutdown")>>,
               <<Set("BATTERY_CUT_OFF", 1)>>>>)>>,
      <<Pick(<<<<Asked("at-shutdown"), Refuse>>,
               <<Args, Set("BATTERY_CUT_OFF", 0)>>>>)>>)>>
cmd_battery_vendor_param ==
  <<Args, Pick(<<<<Get("BATTERY_VENDOR_PARAM", 0)>>,
                 <<Args, SetGet("BATTERY_VENDOR_PARAM", 0)>>>>)>>

-----------------------------------------------------------------------------
\* One event: of another port, of an error, or not the expected one ends it.
cmd_pchg_wait_event == <<Poll, Check>>

cmd_pchg_update_open ==
  <<Set("PCHG_UPDATE", 0), Check>> \o cmd_pchg_wait_event \o
  <<Or(Get("PCHG", 2), <<Pick(<<<<Fail>>, <<Get("PCHG", 1)>>>>)>>), Check>> \o
  cmd_pchg_wait_event

cmd_pchg_update_write ==
  <<File, Repeat(<<Set("PCHG_UPDATE", 0)>> \o cmd_pchg_wait_event)>>
cmd_pchg_update_close == <<Set("PCHG_UPDATE", 0)>> \o cmd_pchg_wait_event

\* The address of a file is parsed when it is that file's turn.
cmd_pchg ==
  <<Get("PCHG_COUNT", 0),
    Pick(<<<<Done>>,
           <<Args, Get("PCHG", 1),
             Pick(<<<<Done>>,
                    <<Set("PCHG_UPDATE", 0)>>,
                    <<Args>> \o cmd_pchg_update_open
                      \o <<Check, Repeat(<<Args>> \o cmd_pchg_update_write)>>
                      \o cmd_pchg_update_close,
                    <<Reject>>>>)>>>>)>>
=============================================================================
