SPECIFICATION LSpec
CONSTANTS
  SettingsSpace <- MCDevelopment
  RouterGiven = {FALSE}
  Threads = {t1}
  Main = main
  Instances = 2
INVARIANT InitialisedOnce
