----------------------------- MODULE FanHandlers ------------------------------
(***************************************************************************)
(* ectool.cc: the stress test, temperatures, thresholds, fans and PWMs.    *)
(***************************************************************************)
EXTENDS Script

\* "help", "reboot", or neither; then counts failures until it is interrupted.
\* FLASH_PROTECT is sent with whatever the stack holds: a query if its mask is
\* zero.
cmd_stress_test ==
  LET flash_protect == Pick(<<<<Try(Get("FLASH_PROTECT", 1))>>,
                              <<Try(SetGet("FLASH_PROTECT", 1))>>>>)
  IN <<Args, Pick(<<<<Done>>, <<Try(Set("REBOOT", 0))>>, <<>>>>),
       Forever(<<Try(Get("GET_VERSION", 0)), Try(Get("GET_BUILD_INFO", 0)),
                 flash_protect, Try(Get("HELLO", 0))>>)>>

\* The version of the temperature block decides which bytes hold the sensor.
read_mapped_temperature == <<Mem, Maybe(<<Mem, Maybe(<<Mem>>)>>)>>

cmd_temperature_print ==
  <<Get("TEMP_SENSOR_GET_INFO", 0), Try(Get("THERMAL_GET_THRESHOLD", 1))>>
\* For all sensors failures are passed over, for one they are not.
cmd_temperature ==
  <<Args,
    Pick(<<<<Repeat(read_mapped_temperature \o
                      <<Maybe(<<IfOk(Get("TEMP_SENSOR_GET_INFO", 0),
                                     <<Try(Get("THERMAL_GET_THRESHOLD", 1))>>,
                                     <<>>)>>)>>)>>,
           <<Args>> \o read_mapped_temperature \o <<Check>>
                    \o cmd_temperature_print>>)>>
cmd_temp_sensor_info ==
  <<Args,
    Pick(<<<<Repeat(read_mapped_temperature \o
                      <<Maybe(<<Try(Get("TEMP_SENSOR_GET_INFO", 0))>>)>>)>>,
           <<Args, Get("TEMP_SENSOR_GET_INFO", 0)>>>>)>>

cmd_thermal_get_threshold_v0 == <<Args, Get("THERMAL_GET_THRESHOLD", 0)>>
cmd_thermal_set_threshold_v0 == <<Args, Set("THERMAL_SET_THRESHOLD", 0)>>

\* "Stop on first failure".
cmd_thermal_get_threshold_v1 ==
  <<Repeat(read_mapped_temperature \o
     <<Maybe(<<Or(Get("THERMAL_GET_THRESHOLD", 1), <<Done>>),
               Positive(<<>>, <<Done>>),
               Try(Get("TEMP_SENSOR_GET_INFO", 0))>>)>>)>>

\* What is not given keeps its value, which has to be read first.
cmd_thermal_set_threshold_v1 ==
  <<Args, Asked("threshold"),
    Get("THERMAL_GET_THRESHOLD", 1), Positive(<<>>, <<ReturnRv>>),
    Args, Set("THERMAL_SET_THRESHOLD", 1), Makes("threshold"), ReturnRv>>

cmd_thermal_get_threshold ==
  <<Supported("THERMAL_GET_THRESHOLD", 1, cmd_thermal_get_threshold_v1,
     <<Supported("THERMAL_GET_THRESHOLD", 0, cmd_thermal_get_threshold_v0,
                 <<Refuse>>)>>)>>
cmd_thermal_set_threshold ==
  <<Supported("THERMAL_SET_THRESHOLD", 1, cmd_thermal_set_threshold_v1,
     <<Supported("THERMAL_SET_THRESHOLD", 0, cmd_thermal_set_threshold_v0,
                 <<Refuse>>)>>)>>

-----------------------------------------------------------------------------
\* An EC that does not know the command is asked fan by fan.
get_num_fans ==
  <<IfOk(Get("GET_FEATURES", 0), <<Maybe(<<Repeat(<<Mem>>)>>)>>,
                                 <<Repeat(<<Mem>>)>>)>>

\* Without version 1 all fans are set, whatever the arguments.
cmd_thermal_auto_fan_ctrl ==
  LET all == <<Set("THERMAL_AUTO_FAN_CTRL", 0)>>
      one == <<Args>> \o get_num_fans \o
               <<Args, Set("THERMAL_AUTO_FAN_CTRL", 1), Makes("fan")>>
  IN <<Pick(<<<<Supported("THERMAL_AUTO_FAN_CTRL", 1, all, all)>>,
             <<Asked("fan"),
               Supported("THERMAL_AUTO_FAN_CTRL", 1, one, all)>>>>)>>

print_fan == <<Mem>>
cmd_pwm_get_num_fans == get_num_fans
cmd_pwm_get_fan_rpm ==
  get_num_fans \o <<Pick(<<<<Repeat(print_fan)>>, <<Args>> \o print_fan>>)>>

\* Version 0 sets all fans, and is what a request without a fan is sent as.
SetFans(c) ==
  LET fans(sets) == <<Args>> \o get_num_fans \o <<Args>> \o sets
  IN <<Pick(<<<<Supported(c, 1, fans(<<Set(c, 0)>>), <<Args, Set(c, 0)>>)>>,
             <<Asked("fan"),
               Supported(c, 1, fans(<<Args, Set(c, 1), Makes("fan")>>),
                         <<Refuse>>)>>>>)>>
cmd_pwm_set_fan_rpm == SetFans("PWM_SET_FAN_TARGET_RPM")
cmd_fanduty == SetFans("PWM_SET_FAN_DUTY")

cmd_pwm_get_keyboard_backlight == <<Get("PWM_GET_KEYBOARD_BACKLIGHT", 0)>>
cmd_pwm_set_keyboard_backlight == <<Args, Set("PWM_SET_KEYBOARD_BACKLIGHT", 0)>>
cmd_pwm_get_duty == <<Args, Get("PWM_GET_DUTY", 0)>>
cmd_pwm_set_duty == <<Args, Set("PWM_SET_DUTY", 0)>>
=============================================================================
