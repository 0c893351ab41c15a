--------------------------- MODULE LightbarHandlers ---------------------------
(***************************************************************************)
(* ectool.cc: the light bar. Every access is one command, LIGHTBAR_CMD,    *)
(* with a command of its own inside; what it does decides whether it only  *)
(* asks.                                                                   *)
(***************************************************************************)
EXTENDS Script

lb_ask == Get("LIGHTBAR_CMD", 0)
lb_do_cmd == SetGet("LIGHTBAR_CMD", 0)

\* A command that went well ends with 0 whatever the length of its answer.
lb_show_msg_names == <<lb_ask>>

lb_set_params(format) == <<Reads(format), lb_do_cmd>>
lb_get_params == <<lb_ask>>
cmd_lightbar_params_v0 == <<Pick(<<lb_set_params("v0"), lb_get_params>>)>>
cmd_lightbar_params_v1 == <<Pick(<<lb_set_params("v1"), lb_get_params>>)>>

\* "params": version 1, and when that fails at any point, version 0.
lb_params_try_both ==
  LET set_v0 == lb_set_params("v0") \o <<Done>>
      get_v0 == lb_get_params \o <<Done>>
  IN <<Pick(<<<<Or(Reads("v1"), set_v0), Or(lb_do_cmd, set_v0)>>,
             <<Or(lb_ask, get_v0)>>>>)>>

\* One group of parameters; a group that was set is read back.
lb_v2par(format) == <<Pick(<<lb_set_params(format) \o lb_get_params,
                            lb_get_params>>)>>
cmd_lightbar_params_v2 ==
  <<Args, Pick(<<<<Done>>, lb_v2par("timing"), lb_v2par("tap"),
                 lb_v2par("osc"), lb_v2par("bright"), lb_v2par("thlds"),
                 lb_v2par("colors")>>)>>

lb_load_program == File

\* What lb_load_program() returns is not looked at. A word that is no
\* subcommand prints the help and ends with 0.
cmd_lightbar ==
  <<Pick(<<<<lb_ask>>,
           <<lb_do_cmd>>,
           cmd_lightbar_params_v0,
           cmd_lightbar_params_v1,
           cmd_lightbar_params_v2,
           lb_params_try_both,
           <<Args, lb_do_cmd>>,
           lb_show_msg_names,
           <<Try(lb_load_program), lb_do_cmd>>,
           <<Done>>>>)>>
=============================================================================
