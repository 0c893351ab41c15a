---------------------------- MODULE UsbPdHandlers -----------------------------
(***************************************************************************)
(* ectool.cc: USB charging, power delivery and Type-C.                     *)
(***************************************************************************)
EXTENDS Script

cmd_usb_charge_set_mode == <<Args, Set("USB_CHARGE_SET_MODE", 0)>>
cmd_usb_mux == <<Args, Set("USB_MUX", 0)>>

\* In the newest version the EC has; step is Get or SetGet, by its name.
usb_pd_control(step) ==
  LET access(v) == <<Step(step, "USB_PD_CONTROL", v, <<>>)>>
  IN <<Supported("USB_PD_CONTROL", 2, access(2),
         <<Supported("USB_PD_CONTROL", 1, access(1), access(0))>>)>>
\* Without options the port is only read, by the same command.
cmd_usb_pd == <<Args, Pick(<<usb_pd_control("get"), usb_pd_control("setget")>>)>>
cmd_usb_pd_dps == <<Args, Set("USB_PD_DPS_CONTROL", 0)>>
cmd_usb_pd_mux_info ==
  <<Args, Get("USB_PD_PORTS", 0), Repeat(<<Get("USB_PD_MUX_INFO", 0)>>)>>
cmd_usb_pd_power ==
  <<Get("USB_PD_PORTS", 0),
    Pick(<<<<Repeat(<<Get("USB_PD_POWER_INFO", 0)>>)>>,
           <<Args, Get("USB_PD_POWER_INFO", 0)>>>>)>>
cmd_charge_port_override == <<Args, Set("PD_CHARGE_PORT_OVERRIDE", 0)>>

\* Each answer takes its entry out of the EC's log.
cmd_pd_log == <<Forever(<<SetGet("PD_GET_LOG_ENTRY", 0), Maybe(<<Done>>)>>)>>
cmd_pd_control == <<Args, Set("PD_CONTROL", 0)>>
cmd_pd_chip_info ==
  <<Args, Supported("PD_CHIP_INFO", 1, <<Get("PD_CHIP_INFO", 1)>>,
                                       <<Get("PD_CHIP_INFO", 0)>>)>>
cmd_pd_write_log == <<Args, Set("PD_WRITE_LOG_ENTRY", 0), ReturnRv>>

cmd_typec_control == <<Args, SetGet("TYPEC_CONTROL", 0)>>
cmd_typec_discovery == <<Args, Get("TYPEC_DISCOVERY", 0)>>

\* An EC that does not know the command is asked the older way.
cmd_typec_status ==
  <<Args, Or(Get("TYPEC_STATUS", 0),
             <<Pick(<<<<Fail>>, usb_pd_control("get") \o <<Done>>>>)>>)>>
=============================================================================
