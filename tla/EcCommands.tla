----------------------------- MODULE EcCommands ------------------------------
(***************************************************************************)
(* ec_commands.h, the protocol of the EC: what is defined of each command  *)
(* are its versions, and in which of them the EC answers with data. A      *)
(* version is defined by its parameters, its answer or an EC_VER constant; *)
(* a command without any of them has version 0. What the structures hold   *)
(* is left out. The sections are those of the header.                      *)
(***************************************************************************)
EXTENDS Naturals, TLC

Command(vs, answering) == [versions |-> vs, answers |-> answering]

\* Versions 0 to n; each answers with data, or none does.
Queries(n) == Command(0..n, 0..n)
Orders(n) == Command(0..n, {})

general ==
  [HELLO |-> Queries(0), GET_VERSION |-> Queries(1), READ_TEST |-> Queries(0),
   GET_BUILD_INFO |-> Queries(0), GET_CHIP_INFO |-> Queries(0),
   GET_BOARD_VERSION |-> Queries(0), READ_MEMMAP |-> Queries(0)]
protocol ==
  [GET_CMD_VERSIONS |-> Queries(1), GET_COMMS_STATUS |-> Queries(0),
   TEST_PROTOCOL |-> Queries(0), GET_PROTOCOL_INFO |-> Queries(0),
   GSV_PAUSE_IN_S5 |-> Queries(0)]
features ==
  [GET_FEATURES |-> Queries(0), GET_SKU_ID |-> Queries(0),
   SET_SKU_ID |-> Orders(0)]

flash ==
  [FLASH_INFO |-> Queries(2), FLASH_READ |-> Queries(0),
   FLASH_WRITE |-> Orders(1), FLASH_ERASE |-> Orders(1)]
flashProtection ==
  [FLASH_PROTECT |-> Command({1}, {1}), FLASH_REGION_INFO |-> Command({1}, {1}),
   FLASH_SPI_INFO |-> Queries(0), FLASH_SELECT |-> Orders(0)]
firmware ==
  [RAND_NUM |-> Queries(0), RWSIG_INFO |-> Queries(0), SYSINFO |-> Queries(0)]

pwm ==
  [PWM_GET_FAN_TARGET_RPM |-> Queries(0), PWM_SET_FAN_TARGET_RPM |-> Orders(1),
   PWM_GET_KEYBOARD_BACKLIGHT |-> Queries(0),
   PWM_SET_KEYBOARD_BACKLIGHT |-> Orders(0), PWM_SET_FAN_DUTY |-> Orders(1),
   PWM_SET_DUTY |-> Orders(0), PWM_GET_DUTY |-> Queries(0)]
lightbar == [LIGHTBAR_CMD |-> Queries(0)]
\* Version 0 of code 0x29 was another command.
led == [LED_CONTROL |-> Command({1}, {1})]
vbootHash == [VBOOT_HASH |-> Queries(0)]

\* Versions 3 and 4 only add to what "info" answers.
motionSense == [MOTION_SENSE_CMD |-> Queries(4)]
buttons == [FORCE_LID_OPEN |-> Orders(0), CONFIG_POWER_BUTTON |-> Orders(0)]
usbCharging == [USB_CHARGE_SET_MODE |-> Orders(0)]
persistentStorage ==
  [PSTORE_INFO |-> Queries(0), PSTORE_READ |-> Queries(0),
   PSTORE_WRITE |-> Orders(0)]
realTimeClock ==
  [RTC_GET_VALUE |-> Queries(0), RTC_GET_ALARM |-> Queries(0),
   RTC_SET_VALUE |-> Orders(0), RTC_SET_ALARM |-> Orders(0)]
\* Version 0 is PORT80_LAST_BOOT, of the same code.
port80 == [PORT80_READ |-> Queries(1)]
vstore ==
  [VSTORE_INFO |-> Queries(0), VSTORE_READ |-> Queries(0),
   VSTORE_WRITE |-> Orders(0)]

thermal ==
  [THERMAL_SET_THRESHOLD |-> Orders(1), THERMAL_GET_THRESHOLD |-> Queries(1),
   THERMAL_AUTO_FAN_CTRL |-> Orders(1), TMP006_GET_CALIBRATION |-> Queries(1),
   TMP006_SET_CALIBRATION |-> Orders(1), TMP006_GET_RAW |-> Queries(0)]
keyboard ==
  [MKBP_STATE |-> Queries(0), MKBP_INFO |-> Queries(0),
   MKBP_SIMULATE_KEY |-> Orders(0), GET_KEYBOARD_ID |-> Queries(0),
   MKBP_SET_CONFIG |-> Orders(0), MKBP_GET_CONFIG |-> Queries(0),
   KEYSCAN_SEQ_CTRL |-> Queries(0)]
keyboardEvents ==
  [GET_NEXT_EVENT |-> Queries(1), KEYBOARD_FACTORY_TEST |-> Queries(0),
   MKBP_WAKE_MASK |-> Queries(0)]
temperature == [TEMP_SENSOR_GET_INFO |-> Queries(0)]
hostEvents ==
  [HOST_EVENT_GET_B |-> Queries(0), HOST_EVENT_GET_SMI_MASK |-> Queries(0),
   HOST_EVENT_GET_SCI_MASK |-> Queries(0),
   HOST_EVENT_GET_WAKE_MASK |-> Queries(0),
   HOST_EVENT_SET_SMI_MASK |-> Orders(0), HOST_EVENT_SET_SCI_MASK |-> Orders(0),
   HOST_EVENT_SET_WAKE_MASK |-> Orders(0), HOST_EVENT_CLEAR |-> Orders(0),
   HOST_EVENT_CLEAR_B |-> Orders(0), HOST_EVENT |-> Queries(0)]
switches ==
  [SWITCH_ENABLE_BKLIGHT |-> Orders(0),
   SWITCH_ENABLE_WIRELESS |-> Command(0..1, {1})]
gpio == [GPIO_SET |-> Orders(0), GPIO_GET |-> Queries(1)]

i2c == [I2C_READ |-> Queries(0), I2C_WRITE |-> Orders(0)]
chargeControl == [CHARGE_CONTROL |-> Command(0..2, {2})]
console == [CONSOLE_SNAPSHOT |-> Orders(0), CONSOLE_READ |-> Queries(1)]
batteryCutOff == [BATTERY_CUT_OFF |-> Orders(1)]
usbMux == [USB_MUX |-> Orders(0)]
ldo == [LDO_SET |-> Orders(0), LDO_GET |-> Queries(0)]
powerInfo == [POWER_INFO |-> Command({1}, {1})]
i2cPassthru == [I2C_PASSTHRU |-> Queries(0)]
hangDetect == [HANG_DETECT |-> Orders(0)]

charging ==
  [CHARGE_STATE |-> Queries(1), CHARGE_CURRENT_LIMIT |-> Orders(0),
   EXTERNAL_POWER_LIMIT |-> Command({1}, {}),
   OVERRIDE_DEDICATED_CHARGER_LIMIT |-> Orders(0), CHARGESPLASH |-> Queries(0)]
hibernation == [HIBERNATION_DELAY |-> Queries(0)]
hostSleep == [HOST_SLEEP_EVENT |-> Command(0..1, {1})]
deviceEvents == [DEVICE_EVENT |-> Queries(0)]
smartBattery ==
  [SB_READ_WORD |-> Queries(0), SB_WRITE_WORD |-> Orders(0),
   SB_READ_BLOCK |-> Queries(0), SB_WRITE_BLOCK |-> Orders(0),
   BATTERY_VENDOR_PARAM |-> Queries(0), SB_FW_UPDATE |-> Queries(0)]
enteringMode == [ENTERING_MODE |-> Orders(0)]
i2cProtect == [I2C_PASSTHRU_PROTECT |-> Queries(0)]
cec ==
  [CEC_WRITE_MSG |-> Orders(0), CEC_SET |-> Orders(0), CEC_GET |-> Queries(0)]
pse == [PSE |-> Queries(0)]
\* REBOOT has no answer at all, RESEND_RESPONSE that of another command.
system ==
  [REBOOT_EC |-> Orders(0), GET_PANIC_INFO |-> Queries(0), REBOOT |-> Orders(0),
   RESEND_RESPONSE |-> Queries(0)]

usbPd ==
  [PD_EXCHANGE_STATUS |-> Queries(2), PD_HOST_EVENT_STATUS |-> Queries(0),
   USB_PD_CONTROL |-> Queries(2)]
\* The answer to DEV_INFO is a hash entry, that to DISCOVERY a list.
usbPdPorts ==
  [USB_PD_PORTS |-> Queries(0), USB_PD_POWER_INFO |-> Queries(0),
   CHARGE_PORT_COUNT |-> Queries(0), USB_PD_DPS_CONTROL |-> Orders(0),
   USB_PD_FW_UPDATE |-> Orders(0), USB_PD_RW_HASH_ENTRY |-> Orders(0),
   USB_PD_DEV_INFO |-> Queries(0), USB_PD_DISCOVERY |-> Queries(0),
   PD_CHARGE_PORT_OVERRIDE |-> Orders(0)]
pdLog ==
  [PD_GET_LOG_ENTRY |-> Queries(0), USB_PD_GET_AMODE |-> Queries(0),
   USB_PD_SET_AMODE |-> Orders(0), PD_WRITE_LOG_ENTRY |-> Orders(0),
   PD_CONTROL |-> Orders(0)]
pdChips ==
  [USB_PD_MUX_INFO |-> Queries(0), PD_CHIP_INFO |-> Queries(1),
   RWSIG_CHECK_STATUS |-> Queries(0), RWSIG_ACTION |-> Orders(0),
   EFS_VERIFY |-> Orders(0)]
boardInfo ==
  [GET_CROS_BOARD_INFO |-> Queries(0), SET_CROS_BOARD_INFO |-> Orders(0)]
uptime == [GET_UPTIME_INFO |-> Queries(0)]
rollback ==
  [ADD_ENTROPY |-> Orders(0), ADC_READ |-> Queries(0),
   ROLLBACK_INFO |-> Queries(0), AP_RESET |-> Orders(0)]
chips == [LOCATE_CHIP |-> Queries(0)]
rebootAp == [REBOOT_AP_ON_G3 |-> Orders(1)]

portCaps == [GET_PD_PORT_CAPS |-> Queries(0)]
button == [BUTTON |-> Orders(0)]
keyboardConfig == [GET_KEYBD_CONFIG |-> Queries(0)]
smartDischarge == [SMART_DISCHARGE |-> Queries(0)]
regulators ==
  [REGULATOR_GET_INFO |-> Queries(0), REGULATOR_ENABLE |-> Orders(0),
   REGULATOR_IS_ENABLED |-> Queries(0), REGULATOR_SET_VOLTAGE |-> Orders(0),
   REGULATOR_GET_VOLTAGE |-> Queries(0)]
typeC == [TYPEC_DISCOVERY |-> Queries(0), TYPEC_CONTROL |-> Orders(0)]
typeCStatus == [TYPEC_STATUS |-> Queries(0)]
peripheralCharger ==
  [PCHG_COUNT |-> Queries(0), PCHG |-> Queries(2), PCHG_UPDATE |-> Queries(0)]
displayed == [DISPLAY_SOC |-> Queries(0), SET_BASE_STATE |-> Orders(0)]
i2cControl == [I2C_CONTROL |-> Queries(0)]
rgbKeyboard == [RGBKBD_SET_COLOR |-> Orders(0), RGBKBD |-> Queries(0)]

fingerprint ==
  [FP_PASSTHRU |-> Queries(0), FP_MODE |-> Queries(0), FP_INFO |-> Queries(1)]
fingerprintData ==
  [FP_FRAME |-> Queries(0), FP_TEMPLATE |-> Orders(0), FP_CONTEXT |-> Orders(1),
   FP_STATS |-> Queries(0), FP_SEED |-> Orders(0), FP_ENC_STATUS |-> Queries(0),
   FP_READ_MATCH_SECRET |-> Queries(0)]
touchpad ==
  [TP_SELF_TEST |-> Orders(0), TP_FRAME_INFO |-> Queries(0),
   TP_FRAME_SNAPSHOT |-> Orders(0), TP_FRAME_GET |-> Queries(0)]
batteries ==
  [BATTERY_GET_STATIC |-> Queries(1), BATTERY_GET_DYNAMIC |-> Queries(0),
   CHARGER_CONTROL |-> Orders(0), USB_PD_MUX_ACK |-> Orders(0)]
framework == [FW_CHARGE_LIMIT |-> Queries(0)]

\* EC_CMD_*, but for the audio codec's, which ectool does not send.
EC_CMD ==
  general @@ protocol @@ features @@ flash @@ flashProtection @@ firmware @@
  pwm @@ lightbar @@ led @@ vbootHash @@ motionSense @@ buttons @@
  usbCharging @@ persistentStorage @@ realTimeClock @@ port80 @@ vstore @@
  thermal @@ keyboard @@ keyboardEvents @@ temperature @@ hostEvents @@
  switches @@ gpio @@ i2c @@ chargeControl @@ console @@ batteryCutOff @@
  usbMux @@ ldo @@ powerInfo @@ i2cPassthru @@ hangDetect @@ charging @@
  hibernation @@ hostSleep @@ deviceEvents @@ smartBattery @@ enteringMode @@
  i2cProtect @@ cec @@ pse @@ system @@ usbPd @@ usbPdPorts @@ pdLog @@
  pdChips @@ boardInfo @@ uptime @@ rollback @@ chips @@ rebootAp @@
  portCaps @@ button @@ keyboardConfig @@ smartDischarge @@ regulators @@
  typeC @@ typeCStatus @@ peripheralCharger @@ displayed @@ i2cControl @@
  rgbKeyboard @@ fingerprint @@ fingerprintData @@ touchpad @@ batteries @@
  framework
=============================================================================
