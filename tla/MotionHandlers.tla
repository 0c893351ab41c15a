---------------------------- MODULE MotionHandlers ----------------------------
(***************************************************************************)
(* ectool.cc: cmd_motionsense(), subcommand by subcommand. ms_help() prints *)
(* the usage and ends with 0.                                              *)
(***************************************************************************)
EXTENDS Script

ms_help == <<Done>>
ms_get(v) == Get("MOTION_SENSE_CMD", v)
ms_set(v) == SetGet("MOTION_SENSE_CMD", v)

\* Without a value the parameter is only read.
ms_get_or_set(v) == <<Args, Pick(<<<<ms_get(v)>>, <<ms_set(v)>>>>)>>

\* Over a transport that returns no lengths this ends before it prints.
motionsense_dump ==
  <<ms_get(1), Positive(<<>>, <<ReturnRv>>), Maybe(<<Check>>)>>

\* The newest version the EC has; more is printed from version 3 on.
motionsense_info ==
  <<Versions("MOTION_SENSE_CMD"), Args,
    Knows("MOTION_SENSE_CMD", 2, <<ms_get(2)>>,
          <<Knows("MOTION_SENSE_CMD", 1, <<ms_get(1)>>, <<ms_get(0)>>)>>)>>

motionsense_ec_rate == ms_get_or_set(1)
motionsense_odr == ms_get_or_set(1)
motionsense_range == ms_get_or_set(1)
motionsense_kb_wake == ms_get_or_set(1)
motionsense_tablet_mode_angle ==
  <<Pick(<<<<Asked("angle")>> \o ms_help,
           <<Args, ms_set(2)>>,
           <<ms_get(2)>>>>)>>

motionsense_fifo_info == <<ms_get(1), ms_get(2)>>
motionsense_fifo_int_enable == <<Pick(<<<<ms_get(2)>>, <<ms_set(2)>>>>)>>

\* Takes data out of the FIFO until there is none or enough is printed.
motionsense_fifo_read == <<Args, Repeat(<<ms_set(2)>>)>>
motionsense_fifo_flush == <<Args, ms_set(1)>>
motionsense_calibrate == <<Args, ms_set(1)>>

\* Fewer than three coordinates print the help.
motionsense_offset ==
  <<Args, Pick(<<<<Asked("offset")>> \o ms_help,
                 <<Args, ms_set(1)>>,
                 <<ms_get(1)>>>>)>>
motionsense_list_activities == <<ms_get(2)>>
motionsense_set_activity == <<Set("MOTION_SENSE_CMD", 2)>>
motionsense_get_activity == <<ms_get(2)>>
motionsense_lid_angle == <<ms_get(2)>>
motionsense_spoof ==
  <<Args, Pick(<<<<Args, Asked("spoof")>> \o ms_help,
                 <<Args, ms_set(2)>>,
                 <<ms_get(2)>>>>)>>

cmd_motionsense ==
  <<Pick(<<ms_help, motionsense_dump, motionsense_info, motionsense_ec_rate,
           motionsense_odr, motionsense_range, motionsense_kb_wake,
           motionsense_tablet_mode_angle, motionsense_fifo_info,
           motionsense_fifo_int_enable, motionsense_fifo_read,
           motionsense_fifo_flush, motionsense_calibrate, motionsense_offset,
           motionsense_list_activities, motionsense_set_activity,
           motionsense_get_activity, motionsense_lid_angle,
           motionsense_spoof>>)>>
=============================================================================
