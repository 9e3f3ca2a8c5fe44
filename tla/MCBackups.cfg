SPECIFICATION BackupFairSpec
CONSTANTS
    Tenants = {t1, t2}
    Broken = {t2}
    Workers = {w1, w2}
    MaxJobs = 2
    MaxFailures = 1
 
PROPERTIES NeverBackupless DueIsServed
CHECK_DEADLOCK FALSE
