CONSTANTS
    i1 = i1
    i2 = i2
    n1 = n1
    n2 = n2
    f0 = f0
    f1 = f1
    PatternId <- MCId
    Name <- MCName
    MaxCustom <- MCMaxCustom
    Field <- MCField
    Default = f0
    MaxProfiles = 3
SPECIFICATION SettingsSpec
INVARIANT ChosenSignalPlays
INVARIANT ScreenShowsActiveProfile
