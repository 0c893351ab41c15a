---------------------------- MODULE EventHandlers -----------------------------
(***************************************************************************)
(* ectool.cc: host events, the keyboard and its matrix, the touchpad, and  *)
(* what the EC reports by events: buttons, switches, CEC.                  *)
(***************************************************************************)
EXTENDS Script

cmd_next_event == <<SetGet("GET_NEXT_EVENT", 0)>>

cmd_host_event_get_raw == <<Mem, Check>>
cmd_host_event_get_b == <<Get("HOST_EVENT_GET_B", 0), Whole, Check>>
cmd_host_event_get_smi_mask == <<Get("HOST_EVENT_GET_SMI_MASK", 0)>>
cmd_host_event_get_sci_mask == <<Get("HOST_EVENT_GET_SCI_MASK", 0)>>
cmd_host_event_get_wake_mask == <<Get("HOST_EVENT_GET_WAKE_MASK", 0)>>
cmd_host_event_set_smi_mask == <<Args, Set("HOST_EVENT_SET_SMI_MASK", 0)>>
cmd_host_event_set_sci_mask == <<Args, Set("HOST_EVENT_SET_SCI_MASK", 0)>>
cmd_host_event_set_wake_mask == <<Args, Set("HOST_EVENT_SET_WAKE_MASK", 0)>>
cmd_host_event_clear == <<Args, Set("HOST_EVENT_CLEAR", 0)>>
cmd_host_event_clear_b == <<Args, Set("HOST_EVENT_CLEAR_B", 0)>>
cmd_switches == <<Mem>>

cmd_kbpress == <<Args, Set("MKBP_SIMULATE_KEY", 0)>>
cmd_keyboard_factory_test == <<SetGet("KEYBOARD_FACTORY_TEST", 0)>>
cmd_kbinfo == <<Args, Get("MKBP_INFO", 0)>>
cmd_kbid == <<Args, Get("GET_KEYBOARD_ID", 0), ReturnRv>>

\* "set" is accepted, and that is all.
cmd_keyconfig ==
  <<Args, Pick(<<<<Get("MKBP_GET_CONFIG", 0)>>, <<Asked("keyconfig")>>>>)>>

cmd_mkbp_get == <<Args, Get("MKBP_INFO", 0), Get("MKBP_INFO", 0)>>
cmd_mkbp_wake_mask ==
  <<Args, Pick(<<<<Get("MKBP_WAKE_MASK", 0)>>,
                 <<Args, SetGet("MKBP_WAKE_MASK", 0)>>>>)>>

cmd_tp_self_test == <<Set("TP_SELF_TEST", 0), ReturnRv>>
\* Frame by frame, each in pieces of at most ec_max_insize.
cmd_tp_frame_get ==
  <<Or(Get("TP_FRAME_INFO", 0), <<Fail>>),
    Or(Set("TP_FRAME_SNAPSHOT", 0), <<Fail>>),
    Repeat(<<Repeat(<<Or(Get("TP_FRAME_GET", 0), <<Fail>>)>>)>>)>>

-----------------------------------------------------------------------------
\* The event waited for is taken off the EC's queue.
wait_event == Poll
cmd_wait_event == <<CanPoll, Args, wait_event>>

cmd_cec_write == <<Args, Set("CEC_WRITE_MSG", 0), wait_event, Check>>
cmd_cec_read == <<CanPoll, Args, wait_event>>
cmd_cec_set == <<Args, Set("CEC_SET", 0), ReturnRv>>
cmd_cec_get == <<Args, Get("CEC_GET", 0)>>
cmd_cec ==
  <<Args, Pick(<<cmd_cec_write, cmd_cec_read, cmd_cec_get, cmd_cec_set>>)>>
=============================================================================
