---------------------------- MODULE SystemHandlers ----------------------------
(***************************************************************************)
(* ectool.cc: handlers about the EC as a whole, its flash, its signatures  *)
(* and the fingerprint sensor. Flash access and what moves data in chunks  *)
(* have modules of their own (EcFlash, FirmwareHandlers).              *)
(***************************************************************************)
EXTENDS Script

cmd_adc_read == <<Args, Get("ADC_READ", 0)>>

\* Started asynchronously, then asked for its result: an error of the
\* transport, or EC_RES_BUSY, is asked again.
AsyncResult(c, v) ==
  <<Set(c, v),
    Repeat(<<IfOk(Get(c, v), <<Done>>, <<Check>>)>>),
    Refuse>>
cmd_add_entropy == AsyncResult("ADD_ENTROPY", 0)
cmd_fp_context == <<Args>> \o AsyncResult("FP_CONTEXT", 1)

cmd_hello == <<Get("HELLO", 0), Check>>
cmd_hibdelay == <<Args, SetGet("HIBERNATION_DELAY", 0)>>
cmd_hostevent ==
  <<Args, Pick(<<<<Get("HOST_EVENT", 0)>>, <<SetGet("HOST_EVENT", 0)>>>>)>>

\* Only "freeze" and "thaw" have a version 1; only it takes a timeout.
cmd_hostsleepstate ==
  LET v0 == <<Set("HOST_SLEEP_EVENT", 0)>>
  IN <<Args, Versions("HOST_SLEEP_EVENT"), Args,
       Pick(<<v0,
              <<Knows("HOST_SLEEP_EVENT", 1,
                      <<SetGet("HOST_SLEEP_EVENT", 1)>>, v0)>>,
              <<Asked("timeout"),
                Knows("HOST_SLEEP_EVENT", 1,
                      <<Args, Set("HOST_SLEEP_EVENT", 1), Makes("timeout")>>,
                      v0)>>>>)>>

\* The version is the user's to choose.
cmd_test ==
  <<Args, Pick(<<<<Get("TEST_PROTOCOL", 0)>>, <<Get("TEST_PROTOCOL", 1)>>>>),
    ReturnRv>>
cmd_s5 == <<Args, SetGet("GSV_PAUSE_IN_S5", 0)>>
cmd_inventory == <<Get("GET_FEATURES", 0)>>

\* Commands beyond 0xff are only known to version 1.
cmd_cmdversions ==
  <<Args,
    Pick(<<<<Versions("GET_CMD_VERSIONS"),
             Knows("GET_CMD_VERSIONS", 1, <<>>, <<Refuse>>),
             Get("GET_CMD_VERSIONS", 1)>>,
           <<Get("GET_CMD_VERSIONS", 0)>>>>)>>

cmd_uptimeinfo == <<Args, Get("GET_UPTIME_INFO", 0)>>
cmd_version ==
  <<Supported("GET_VERSION", 1, <<Get("GET_VERSION", 1)>>,
                                <<Get("GET_VERSION", 0)>>),
    Get("GET_BUILD_INFO", 0)>>
cmd_read_test == <<Args, Check, Repeat(<<Get("READ_TEST", 0)>>), Check>>

cmd_reboot_ec ==
  <<Pick(<<<<Set("REBOOT", 0)>>, <<Args, Set("REBOOT_EC", 0)>>>>)>>
\* Version 0 does not read the delay.
cmd_reboot_ap_on_g3 ==
  LET set(v) == Set("REBOOT_AP_ON_G3", v)
  IN <<Pick(<<<<Supported("REBOOT_AP_ON_G3", 1, <<set(1)>>, <<set(0)>>)>>,
             <<Args, Asked("delay"),
               Supported("REBOOT_AP_ON_G3", 1, <<set(1), Makes("delay")>>,
                                               <<set(0)>>)>>>>)>>

cmd_rgbkbd_set_color == <<Check, Args, Set("RGBKBD_SET_COLOR", 0)>>
cmd_rgbkbd ==
  <<Args, Pick(<<<<Args, SetGet("RGBKBD", 0)>>,
                 <<Get("RGBKBD", 0)>>,
                 cmd_rgbkbd_set_color>>)>>
cmd_button == <<Args, Maybe(<<Set("BUTTON", 0)>>)>>

\* Wrong: the newer version is sent whether or not there is one.
flash_info_newest ==
  <<Supported("FLASH_INFO", 1, <<Get("FLASH_INFO", 1)>>,
                               <<Get("FLASH_INFO", 1)>>)>>
cmd_flash_info ==
  <<Supported("FLASH_INFO", 1, <<Get("FLASH_INFO", 1)>>,
                               <<Get("FLASH_INFO", 0)>>)>>
cmd_rand == <<Args, Repeat(<<Get("RAND_NUM", 0), Check>>)>>
cmd_flash_spi_info ==
  <<Supported("FLASH_SPI_INFO", 0, <<>>, <<Refuse>>), Get("FLASH_SPI_INFO", 0)>>

\* The answer shows whether the flags took effect.
cmd_flash_protect ==
  <<Pick(<<<<Get("FLASH_PROTECT", 1)>>, <<SetGet("FLASH_PROTECT", 1)>>>>),
    Whole, Check>>
cmd_rw_hash_pd == <<Args, Set("USB_PD_RW_HASH_ENTRY", 0), ReturnRv>>

cmd_rwsig_status == <<Get("RWSIG_CHECK_STATUS", 0)>>
rwsig_action == <<Args, Set("RWSIG_ACTION", 0), ReturnRv>>
cmd_rwsig_action == <<Args>> \o rwsig_action
cmd_rwsig_action_legacy == <<Args>> \o rwsig_action
rwsig_info == <<Get("RWSIG_INFO", 0)>>
cmd_rwsig_info == <<Args>> \o rwsig_info
cmd_rwsig ==
  <<Args, Pick(<<cmd_rwsig_info, cmd_rwsig_action, cmd_rwsig_status>>)>>

sysinfo == <<Get("SYSINFO", 0)>>
cmd_sysinfo == <<Args>> \o sysinfo
cmd_rollback_info == <<Get("ROLLBACK_INFO", 0)>>
cmd_apreset == <<Set("AP_RESET", 0), ReturnRv>>

cmd_fp_mode ==
  <<Pick(<<<<Get("FP_MODE", 0)>>, <<SetGet("FP_MODE", 0)>>>>)>>
cmd_fp_seed == <<Args, Set("FP_SEED", 0), ReturnRv>>
cmd_fp_stats == <<Get("FP_STATS", 0)>>
cmd_fp_info ==
  <<Supported("FP_INFO", 1, <<Get("FP_INFO", 1)>>, <<Get("FP_INFO", 0)>>)>>
cmd_fp_enc_status == <<Get("FP_ENC_STATUS", 0)>>

cmd_pd_set_amode == <<Args, Set("USB_PD_SET_AMODE", 0), ReturnRv>>
\* Every mode in turn, whether or not the command worked; never 0.
cmd_pd_get_amode == <<Args, Repeat(<<Try(Get("USB_PD_GET_AMODE", 0))>>), Fail>>

cmd_smart_discharge ==
  <<Pick(<<<<Get("SMART_DISCHARGE", 0)>>,
           <<Done>>,
           <<Args, SetGet("SMART_DISCHARGE", 0)>>>>), Mem>>
=============================================================================
