--------------------------- MODULE FirmwareHandlers ---------------------------
(***************************************************************************)
(* ectool.cc: new firmware for a power delivery controller, and frames and *)
(* templates of the fingerprint sensor: many commands that are only worth  *)
(* something together.                                                     *)
(***************************************************************************)
EXTENDS Script

\* Asks for the modes of the partner until it names Google's. The result of a
\* query is not looked at: where it fails, the buffer still says what it said
\* before, which is what old stands for. A partner that has no GFU mode and is
\* in no mode counts as being in it.
in_gfu_mode(old, yes, no) ==
  LET Google == Pick(<<<<Makes("gfu")>> \o yes, yes, no, <<Refuse>>>>)
  IN <<Pick(<<<<IfOk(Get("USB_PD_GET_AMODE", 0), <<Google>>, old)>>,
             <<Try(Get("USB_PD_GET_AMODE", 0)),
               Repeat(<<Try(Get("USB_PD_GET_AMODE", 0))>>),
               IfOk(Get("USB_PD_GET_AMODE", 0), <<Google>>, <<Fail>>)>>>>)>>

\* Neither is that of entering it; the query that follows tells.
enter_gfu_mode(old) ==
  in_gfu_mode(old, <<>>,
              <<Try(Set("USB_PD_SET_AMODE", 0))>> \o
                in_gfu_mode(<<Fail>>, <<>>, <<Refuse>>))

cmd_pd_device_info ==
  <<Args, Asked("gfu"), Get("USB_PD_DISCOVERY", 0)>> \o enter_gfu_mode(<<Fail>>)
    \o <<Get("USB_PD_DEV_INFO", 0), ReturnRv>>

\* Erases the hash and reboots, so that the old firmware is not started again;
\* erases, writes, and reboots into the new one. When GFU mode is entered
\* again, what the buffer says is that it was entered before.
cmd_flash_pd ==
  LET fw_update == Or(Set("USB_PD_FW_UPDATE", 0), <<Fail>>)
  IN <<Args, Asked("gfu")>> \o enter_gfu_mode(<<Fail>>)
       \o <<File, fw_update, fw_update>> \o enter_gfu_mode(<<>>)
       \o <<fw_update, Repeat(<<fw_update>>), fw_update>>

-----------------------------------------------------------------------------
\* Chunks of ec_max_insize, each tried three times unless access is denied.
fp_download_frame ==
  LET frame(again) == IfOk(Get("FP_FRAME", 0), <<>>, again)
      again(rest) == <<Pick(<<<<Fail>>, rest>>)>>
  IN <<Supported("FP_INFO", 1, <<Or(Get("FP_INFO", 1), <<Fail>>)>>,
                 <<Maybe(<<Refuse>>), Or(Get("FP_INFO", 0), <<Fail>>)>>),
       Repeat(<<frame(again(<<frame(again(<<frame(<<Fail>>)>>))>>))>>)>>

cmd_fp_frame == fp_download_frame

\* The last chunk of a template commits it; an empty file has none.
cmd_fp_template ==
  <<Args,
    Pick(<<fp_download_frame,
           <<File, Asked("template"),
             Maybe(<<Repeat(<<Set("FP_TEMPLATE", 0)>>),
                     Set("FP_TEMPLATE", 0), Makes("template")>>)>>>>)>>
=============================================================================
