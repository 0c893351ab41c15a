---------------------------- MODULE LightbarParams ----------------------------
(***************************************************************************)
(* The parameters of the light bar as ectool.cc prints them and reads them *)
(* back from a file: lines, in order, each of so many values of a field.   *)
(* A line is read if it starts with as many numbers as are wanted; what    *)
(* follows, the name of the field, is a comment. The structures sent to    *)
(* the EC are the sets of their fields.                                    *)
(***************************************************************************)
EXTENDS Naturals, Sequences, SequencesExt

\* Lines of n values each.
Each(n, fields) == [i \in DOMAIN fields |-> [n |-> n, field |-> fields[i]]]

colors == <<"color0", "color1", "color2", "color3", "color4", "color5",
            "color6", "color7">>

-----------------------------------------------------------------------------
lb_show_params_v0 ==
  Each(1, <<"google_ramp_up", "google_ramp_down", "s3s0_ramp_up",
            "s0_tick_delay0", "s0_tick_delay1", "s0a_tick_delay0",
            "s0a_tick_delay1", "s0s3_ramp_down", "s3_sleep_for", "s3_ramp_up",
            "s3_ramp_down", "new_s0">>) \o
  Each(2, <<"osc_min", "osc_max", "w_ofs", "bright_bl_off_fixed",
            "bright_bl_on_min", "bright_bl_on_max">>) \o
  Each(3, <<"battery_threshold">>) \o
  Each(4, <<"s0_idx0", "s0_idx1", "s3_idx0", "s3_idx1">>) \o Each(3, colors)

lb_read_params_v0_from_file ==
  Each(1, <<"google_ramp_up", "google_ramp_down", "s3s0_ramp_up",
            "s0_tick_delay0", "s0_tick_delay1", "s0a_tick_delay0",
            "s0a_tick_delay1", "s0s3_ramp_down", "s3_sleep_for", "s3_ramp_up",
            "s3_ramp_down", "new_s0">>) \o
  Each(2, <<"osc_min", "osc_max", "w_ofs">>) \o
  Each(2, <<"bright_bl_off_fixed">>) \o Each(2, <<"bright_bl_on_min">>) \o
  Each(2, <<"bright_bl_on_max">>) \o Each(3, <<"battery_threshold">>) \o
  Each(4, <<"s0_idx0", "s0_idx1", "s3_idx0", "s3_idx1">>) \o Each(3, colors)

lb_show_v2par_timing ==
  Each(1, <<"google_ramp_up", "google_ramp_down", "s3s0_ramp_up",
            "s0_tick_delay0", "s0_tick_delay1", "s0a_tick_delay0",
            "s0a_tick_delay1", "s0s3_ramp_down", "s3_sleep_for", "s3_ramp_up",
            "s3_ramp_down", "tap_tick_delay", "tap_gate_delay",
            "tap_display_time">>)
lb_rd_timing_v2par_from_file ==
  Each(1, <<"google_ramp_up", "google_ramp_down", "s3s0_ramp_up",
            "s0_tick_delay0", "s0_tick_delay1", "s0a_tick_delay0",
            "s0a_tick_delay1", "s0s3_ramp_down", "s3_sleep_for", "s3_ramp_up",
            "s3_ramp_down", "tap_tick_delay", "tap_gate_delay",
            "tap_display_time">>)

lb_show_v2par_tap ==
  Each(1, <<"tap_pct_red", "tap_pct_green", "tap_seg_min_on", "tap_seg_max_on",
            "tap_seg_osc">>) \o Each(3, <<"tap_idx">>)
lb_rd_tap_v2par_from_file ==
  Each(1, <<"tap_pct_red", "tap_pct_green", "tap_seg_min_on", "tap_seg_max_on",
            "tap_seg_osc">>) \o Each(3, <<"tap_idx">>)

lb_show_v2par_osc == Each(2, <<"osc_min", "osc_max", "w_ofs">>)
lb_rd_osc_v2par_from_file == Each(2, <<"osc_min", "osc_max", "w_ofs">>)

lb_show_v2par_bright ==
  Each(2, <<"bright_bl_off_fixed", "bright_bl_on_min", "bright_bl_on_max">>)
lb_rd_bright_v2par_from_file ==
  Each(2, <<"bright_bl_off_fixed", "bright_bl_on_min", "bright_bl_on_max">>)

lb_show_v2par_thlds == Each(3, <<"battery_threshold">>)
lb_rd_thlds_v2par_from_file == Each(3, <<"battery_threshold">>)

lb_show_v2par_colors ==
  Each(4, <<"s0_idx0", "s0_idx1", "s3_idx0", "s3_idx1">>) \o Each(3, colors)
lb_rd_colors_v2par_from_file ==
  Each(4, <<"s0_idx0", "s0_idx1", "s3_idx0", "s3_idx1">>) \o Each(3, colors)

\* Version 1 prints and reads what version 2 has in groups.
lb_show_params_v1 ==
  lb_show_v2par_timing \o lb_show_v2par_tap \o lb_show_v2par_osc \o
  lb_show_v2par_bright \o lb_show_v2par_thlds \o lb_show_v2par_colors
\* Wrong: brightness and oscillation in another order than they are printed.
lb_read_params_v1_reordered ==
  lb_rd_timing_v2par_from_file \o lb_rd_tap_v2par_from_file \o
  lb_rd_bright_v2par_from_file \o lb_rd_osc_v2par_from_file \o
  lb_rd_thlds_v2par_from_file \o lb_rd_colors_v2par_from_file
lb_read_params_v1_from_file ==
  lb_rd_timing_v2par_from_file \o lb_rd_tap_v2par_from_file \o
  lb_rd_osc_v2par_from_file \o lb_rd_bright_v2par_from_file \o
  lb_rd_thlds_v2par_from_file \o lb_rd_colors_v2par_from_file

-----------------------------------------------------------------------------
\* The fields of the structures of ec_commands.h.
lightbar_params_v2_timing ==
  {"google_ramp_up", "google_ramp_down", "s3s0_ramp_up", "s0_tick_delay0",
   "s0_tick_delay1", "s0a_tick_delay0", "s0a_tick_delay1", "s0s3_ramp_down",
   "s3_sleep_for", "s3_ramp_up", "s3_ramp_down", "s5_ramp_up", "s5_ramp_down",
   "tap_tick_delay", "tap_gate_delay", "tap_display_time"}
lightbar_params_v2_tap ==
  {"tap_pct_red", "tap_pct_green", "tap_seg_min_on", "tap_seg_max_on",
   "tap_seg_osc", "tap_idx"}
lightbar_params_v2_oscillation == {"osc_min", "osc_max", "w_ofs"}
lightbar_params_v2_brightness ==
  {"bright_bl_off_fixed", "bright_bl_on_min", "bright_bl_on_max"}
lightbar_params_v2_thresholds == {"battery_threshold"}
lightbar_params_v2_colors ==
  {"s0_idx0", "s0_idx1", "s3_idx0", "s3_idx1", "s5_idx"} \cup ToSet(colors)
lightbar_params_v1 ==
  lightbar_params_v2_timing \cup lightbar_params_v2_tap \cup
  lightbar_params_v2_oscillation \cup lightbar_params_v2_brightness \cup
  lightbar_params_v2_thresholds \cup lightbar_params_v2_colors
lightbar_params_v0 ==
  (lightbar_params_v2_timing \ {"s5_ramp_up", "s5_ramp_down", "tap_tick_delay",
                                "tap_gate_delay", "tap_display_time"})
  \cup {"new_s0"} \cup lightbar_params_v2_oscillation
  \cup lightbar_params_v2_brightness \cup lightbar_params_v2_thresholds
  \cup (lightbar_params_v2_colors \ {"s5_idx"})

-----------------------------------------------------------------------------
Format(show, read, struct) == [show |-> show, read |-> read, struct |-> struct]

LightbarFormats ==
  [v0 |-> Format(lb_show_params_v0, lb_read_params_v0_from_file,
                 lightbar_params_v0),
   v1 |-> Format(lb_show_params_v1, lb_read_params_v1_from_file,
                 lightbar_params_v1),
   timing |-> Format(lb_show_v2par_timing, lb_rd_timing_v2par_from_file,
                     lightbar_params_v2_timing),
   tap |-> Format(lb_show_v2par_tap, lb_rd_tap_v2par_from_file,
                  lightbar_params_v2_tap),
   osc |-> Format(lb_show_v2par_osc, lb_rd_osc_v2par_from_file,
                  lightbar_params_v2_oscillation),
   bright |-> Format(lb_show_v2par_bright, lb_rd_bright_v2par_from_file,
                     lightbar_params_v2_brightness),
   thlds |-> Format(lb_show_v2par_thlds, lb_rd_thlds_v2par_from_file,
                    lightbar_params_v2_thresholds),
   colors |-> Format(lb_show_v2par_colors, lb_rd_colors_v2par_from_file,
                     lightbar_params_v2_colors)]

\* Whether the reader of format r takes the file printed as f; more lines than
\* it wants are not looked at.
Accepts(r, f) ==
  LET wanted == LightbarFormats[r].read  got == LightbarFormats[f].show
  IN /\ Len(got) >= Len(wanted)
     /\ \A i \in DOMAIN wanted : got[i].n = wanted[i].n

\* Whether every value then ends up in the field it was printed for.
ReadAsShown(r, f) ==
  LET wanted == LightbarFormats[r].read  got == LightbarFormats[f].show
  IN \A i \in DOMAIN wanted : got[i].field = wanted[i].field

\* The fields of the structure to which the reader gives no value.
Unread(r) ==
  LET wanted == LightbarFormats[r].read
  IN LightbarFormats[r].struct \ {wanted[i].field : i \in DOMAIN wanted}
=============================================================================
