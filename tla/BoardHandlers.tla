---------------------------- MODULE BoardHandlers -----------------------------
(***************************************************************************)
(* ectool.cc and ectool_i2c.cc: LEDs, pins, radios, clocks, persistent     *)
(* storage, hashes, logs, sensors, I2C passthrough and raw commands.       *)
(***************************************************************************)
EXTENDS Script

cmd_led ==
  <<Args, Pick(<<<<Get("LED_CONTROL", 1)>>, <<Args, SetGet("LED_CONTROL", 1)>>>>)>>
\* Data too short, or of an architecture nobody knows; that it has another
\* size than it says is a warning.
parse_panic_info == <<Check, Maybe(<<Refuse>>)>>
\* No answer at all is no panic.
cmd_panic_info ==
  <<Get("GET_PANIC_INFO", 0), Positive(parse_panic_info, <<Done>>)>>
cmd_power_info == <<Get("POWER_INFO", 1)>>
cmd_pse == <<Args, Pick(<<<<Get("PSE", 0)>>, <<Set("PSE", 0)>>>>)>>

cmd_pstore_info == <<Get("PSTORE_INFO", 0)>>
cmd_pstore_read == <<Args, Repeat(<<Get("PSTORE_READ", 0)>>), Check>>
\* Wrong: the file is read piece by piece.
pstore_write_from_file == <<Args, Repeat(<<File, Set("PSTORE_WRITE", 0)>>)>>
cmd_pstore_write == <<Args, File, Repeat(<<Set("PSTORE_WRITE", 0)>>)>>

\* Flags alone are sent as version 0, with a mask as version 1; flags for
\* suspend count only with a mask of their own.
cmd_wireless ==
  LET v1 == SetGet("SWITCH_ENABLE_WIRELESS", 1)
  IN <<Args, Pick(<<<<Set("SWITCH_ENABLE_WIRELESS", 0)>>,
                    <<Args, v1>>,
                    <<Args, Asked("susflags"), v1>>,
                    <<Args, Asked("susflags"), v1, Makes("susflags")>>>>)>>
cmd_locate_chip == <<Args, Get("LOCATE_CHIP", 0), Check>>
cmd_lcd_backlight == <<Args, Set("SWITCH_ENABLE_BKLIGHT", 0)>>
cmd_basestate == <<Args, Set("SET_BASE_STATE", 0), ReturnRv>>

\* Version 0 reads one pin by name, version 1 also counts and lists them.
cmd_gpio_get ==
  <<Supported("GPIO_GET", 1,
      <<Args, Pick(<<<<Args, Get("GPIO_GET", 1)>>,
                     <<Get("GPIO_GET", 1),
                       Maybe(<<Repeat(<<Get("GPIO_GET", 1)>>)>>)>>>>)>>,
      <<Args, Get("GPIO_GET", 0)>>)>>
\* Wrong: the answer of the EC is not looked at.
gpio_set_unchecked == <<Args, Try(Set("GPIO_SET", 0))>>
cmd_gpio_set == <<Args, Set("GPIO_SET", 0)>>

cmd_board_version == <<Get("GET_BOARD_VERSION", 0), ReturnRv>>
cmd_cbi ==
  <<Args, Pick(<<<<Args, Get("GET_CROS_BOARD_INFO", 0), Positive(<<>>, <<Refuse>>)>>,
                 <<Args, Set("SET_CROS_BOARD_INFO", 0)>>,
                 <<Reject>>>>)>>
cmd_chipinfo == <<Get("GET_CHIP_INFO", 0)>>
cmd_proto_info == <<Get("GET_PROTOCOL_INFO", 0)>>
cmd_ec_hash ==
  <<Pick(<<<<Get("VBOOT_HASH", 0)>>,
           <<SetGet("VBOOT_HASH", 0)>>,
           <<Done>>,
           <<Args, SetGet("VBOOT_HASH", 0)>>>>)>>

\* Wrong: the result of the command is that of the handler.
rtc_get_rv == <<Get("RTC_GET_VALUE", 0), ReturnRv>>
cmd_rtc_get == <<Get("RTC_GET_VALUE", 0)>>
cmd_rtc_set == <<Args, Set("RTC_SET_VALUE", 0)>>
cmd_rtc_set_alarm == <<Args, Set("RTC_SET_ALARM", 0)>>
cmd_rtc_get_alarm == <<Get("RTC_GET_ALARM", 0)>>

\* Reads until an answer is empty.
cmd_console ==
  <<Set("CONSOLE_SNAPSHOT", 0),
    Repeat(<<SetGet("CONSOLE_READ", 0), Positive(<<>>, <<Done>>)>>)>>

\* Wrong: a calibration that could not be read is changed and written.
tmp006cal_unchecked ==
  <<Try(Get("TMP006_GET_CALIBRATION", 0)),
    Maybe(<<Args, Set("TMP006_SET_CALIBRATION", 0), ReturnRv>>)>>

\* The calibration is read whole, changed in part and written back.
cmd_tmp006cal_v0 ==
  <<Get("TMP006_GET_CALIBRATION", 0),
    Maybe(<<Args, Set("TMP006_SET_CALIBRATION", 0), ReturnRv>>)>>
cmd_tmp006cal_v1 ==
  <<Get("TMP006_GET_CALIBRATION", 1),
    Maybe(<<Args, Set("TMP006_SET_CALIBRATION", 1), ReturnRv>>)>>
cmd_tmp006cal ==
  <<Args,
    Supported("TMP006_GET_CALIBRATION", 1, cmd_tmp006cal_v1,
      <<Supported("TMP006_GET_CALIBRATION", 0, cmd_tmp006cal_v0, <<Refuse>>)>>)>>
cmd_tmp006raw == <<Args, Get("TMP006_GET_RAW", 0)>>

cmd_hang_detect == <<Args, Set("HANG_DETECT", 0), ReturnRv>>
\* The last boot is printed whether or not it could be read.
cmd_port80_read ==
  <<Supported("PORT80_READ", 1,
      <<Get("PORT80_READ", 1), Repeat(<<Get("PORT80_READ", 1)>>)>>,
      <<Try(Get("PORT80_READ", 0))>>)>>
cmd_force_lid_open == <<Args, Set("FORCE_LID_OPEN", 0)>>

\* x86 only.
cmd_serial_test == <<PortIo>>
cmd_port_80_flood == <<PortIo>>

\* Any command number, with version 0.
cmd_raw == <<Args, Or(SetGet("RAW", 0), <<Fail>>)>>

cmd_fw_charge_limit ==
  <<Pick(<<<<Get("FW_CHARGE_LIMIT", 0)>>, <<Args, SetGet("FW_CHARGE_LIMIT", 0)>>>>)>>
\* A controller that does not answer is passed over.
print_cypd_controller == <<Try(Get("I2C_PASSTHRU", 0))>>
cmd_fw_pdversion ==
  <<Get("GET_VERSION", 0), Check>>
    \o print_cypd_controller \o print_cypd_controller

-----------------------------------------------------------------------------
cmd_i2c_protect ==
  <<Args, Pick(<<<<Get("I2C_PASSTHRU_PROTECT", 0)>>,
                 <<Set("I2C_PASSTHRU_PROTECT", 0)>>>>)>>
\* The answer has to be whole and without a bus error.
do_i2c_xfer == <<Check, SetGet("I2C_PASSTHRU", 0), Check, Whole>>
cmd_i2c_read == <<Args>> \o do_i2c_xfer
cmd_i2c_write == <<Args>> \o do_i2c_xfer
cmd_i2c_xfer == <<Args>> \o do_i2c_xfer
i2c_get == <<Get("I2C_CONTROL", 0)>>
i2c_set == <<Args, SetGet("I2C_CONTROL", 0)>>
cmd_i2c_speed == <<Args, Pick(<<i2c_get, <<Args>> \o i2c_set>>)>>
=============================================================================
