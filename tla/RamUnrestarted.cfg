SPECIFICATION MachineSpec
INVARIANT RamRebootEarned
CHECK_DEADLOCK FALSE
CONSTANTS RamMonitor=2 RamCooldown=1 RamReboot=6 DiskCooldown=2 GpuDelay=2 MaxHold=3 Updates=0 Levels={"ram","fallback"} LongAgo=99
