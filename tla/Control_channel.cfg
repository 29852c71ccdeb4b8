SPECIFICATION FairSpec
CONSTANT MaxFrames = 1

    
PROPERTIES CloseEndsBoth RefreshEnds
