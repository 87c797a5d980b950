SPECIFICATION FairSpec
CONSTANTS
    Procs = {p1, p2}
    Sessions = {s1, s2}
    Home = s1
    Zero = zero
    Nobody = nobody
PROPERTIES ImplementsSingleTray TrayComesBack TrayGoes
